---------------------------- MODULE Spec2Model ----------------------------
(***************************************************************************)
(* gitops-push: the GitOps synchronization routine.                        *)
(*                                                                         *)
(* The model follows one invocation of run (src/main.ts) after another     *)
(* against one remote GitOps branch: inputs, working-copy creation, clone, *)
(* values composition, render, and commitAndPush (src/utils/git.ts:        *)
(* placement, staging, change check, commit, push with retry), then the    *)
(* success tail or the catch handler of run.                               *)
(*                                                                         *)
(* A second specification, SpecCompiled, follows the compiled variant of   *)
(* commitAndPush (dist/utils/git.js), called directly on a working copy.   *)
(*                                                                         *)
(* File trees are functions from paths (sequences of names) to content     *)
(* ids.  Directories are implicit: a directory exists when a file lies     *)
(* below it.  External commands are steps whose outcome (success, failure, *)
(* exit code) is chosen by the environment.                                *)
(***************************************************************************)
EXTENDS Integers, Sequences, FiniteSets, TLC

VARIABLES
    pc,              \* position in run / commitAndPush
    variant,         \* "current" (git.ts, called by run), "direct" (git.ts, called
                     \* on its own) or "compiled" (dist/utils/git.js)
    runs,            \* number of invocations started
    remote,          \* tree at the tip of the remote GitOps branch
    head,            \* tree of the working copy's last commit
    index,           \* staged tree of the working copy
    wt,              \* working tree of the working copy
    wcExists,        \* the invocation's working-copy directory exists on disk
    inputs,          \* the invocation's inputs and local manifests directory
    manifest,        \* content id of the rendered pointer manifest (0: none)
    gitDiffExitCode, \* result of the change check (-1: not run)
    hasChanges,      \* the compiled variant's flag (set by the change check)
    attempt,         \* loop variable of the push retry loop
    now,             \* clock of the invocation, in ms
    wakeAt,          \* when the pending retry timer fires
    trace,           \* commands, log lines and timer events of the invocation
    error,           \* message of the error in flight or caught ("" : none)
    failed,          \* messages passed to core.setFailed
    outputs,         \* number of times the time output was published
    prev,            \* inputs and result of the previous invocation
    customValuesFile,      \* generateArgoCDAppManifest's temporary values file exists
    helmTemplateExitCode,  \* exit status of the templating process (-1: not run)
    helmTemplateStderr,    \* what the templating process wrote to standard error
    gvpc,            \* position in generateValuesYaml, followed on its own
    args,            \* the arguments generateValuesYaml was called with
    defaultValues,   \* its defaultValues object (the merge works on it in place)
    valuesYaml,      \* the text it returned
    valuesError,     \* the message of the error it raised ("" : none)
    env,             \* what the workflow and the remote repository supply
    hostNow,         \* the host's clock (Date.now()), in ms
    proc,            \* the invocations running on the host: position and path
    tmp,             \* the host's temporary directory: who wrote into each path
    ppc,             \* position in parseRepositoryInfo, followed on its own
    repository,      \* the repository string it was called with
    contextOwner,    \* github.context.repo.owner
    parsed,          \* what it returned
    origin,          \* tip commit of the remote branch two invocations race for
    job,             \* the racing invocations: position, clone, commit, attempts
    targets          \* the paths commitAndPush computes from its arguments

\* State of generateArgoCDAppManifest.
renderVars == <<customValuesFile, helmTemplateExitCode, helmTemplateStderr>>

\* State of generateValuesYaml.
valuesVars == <<gvpc, args, defaultValues, valuesYaml, valuesError>>

\* The surroundings of an invocation.
envVars == <<env>>

\* State of the host shared by concurrent invocations.
hostVars == <<hostNow, proc, tmp>>

\* State of parseRepositoryInfo.
parseVars == <<ppc, repository, contextOwner, parsed>>

\* State of the race of two invocations for one remote branch.
raceVars == <<origin, job>>

\* State of commitAndPush's path computation, followed on its own.
pathVars == <<targets>>

vars == <<pc, variant, runs, remote, head, index, wt, wcExists, inputs, manifest,
          gitDiffExitCode, hasChanges, attempt, now, wakeAt, trace, error,
          failed, outputs, prev, renderVars, valuesVars, envVars, hostVars,
          parseVars, raceVars, pathVars>>

-----------------------------------------------------------------------------
(* Bounds of the model *)

\* Number of invocations of run followed one after another.
MaxRuns == 2

\* How far the host's clock is followed, in ms.
MaxClock == 2

\* Longest repository string parseRepositoryInfo is called with, in
\* characters.
MaxRepositoryLen == 3

-----------------------------------------------------------------------------
(* Program constants *)

maxRetries == 4

\* The schedule written in seconds where setTimeout takes milliseconds.
retryDelaysInSeconds == <<2, 4, 8, 16>>

retryDelays == <<2000, 4000, 8000, 16000>>

gitopsArgoAppsPrefix == "argocd-apps"

\* The invocation's identity fields: one application, one environment.
applicationName == "app"

environment == "dev"

\* application-manifests-path, a relative directory name
applicationManifestsPath == "k8s"

\* The GitOps repository, as parseRepositoryInfo returns it.
gitopsOrg == "org"

gitopsRepoName == "gitops"

gitopsPath == "./"

\* main.ts 49-51: the chart used when the input is not supplied.
argoCDAppHelmChartGitURL ==
    "git+https://github.com/kzap/gitops-push@templates/helm/argocd-app-0.1.0.tgz?ref=main"

-----------------------------------------------------------------------------
(* File trees and paths *)

NoTree == <<>>

IsPrefix(d, p) == Len(d) <= Len(p) /\ SubSeq(p, 1, Len(d)) = d

\* A directory exists where some file lies strictly below it.
DirExists(t, d) == \E p \in DOMAIN t : Len(p) > Len(d) /\ IsPrefix(d, p)

Put(t, p, c) == [q \in (DOMAIN t) \cup {p} |-> IF q = p THEN c ELSE t[q]]

\* The tree t overlaid with the files of u (u wins where both have the path).
Overlay(t, u) ==
    [q \in (DOMAIN t) \cup (DOMAIN u) |-> IF q \in DOMAIN u THEN u[q] ELSE t[q]]

\* path.join of a directory and one more segment.
Join(d, name) == Append(d, name)

\* io.cp(source, dest) of @actions/io, as called at git.ts 136, 165, 169:
\* where the copy lands.  The library's rule ("if dest is an existing
\* directory, should copy inside"): when dest is an existing directory the
\* source goes to path.join(dest, path.basename(source)); otherwise it goes
\* to dest itself.  The source's base name is the entry name the caller
\* joined into both paths.
CpDest(t, sourceName, dest) ==
    IF DirExists(t, dest) THEN Join(dest, sourceName) ELSE dest

\* io.cp(sourcePath, destPath) of a file with content c (force: overwrite).
CpFile(t, c, sourceName, dest) == Put(t, CpDest(t, sourceName, dest), c)

\* io.cp(sourcePath, destPath, {recursive: true}) of the directory `name`
\* of the local tree s: every file below it, structure kept.
CpDir(t, s, name, dest) ==
    LET newDest == CpDest(t, name, dest)
        below   == {q \in DOMAIN s : Len(q) > 1 /\ q[1] = name}
        copied  == [r \in {newDest \o Tail(q) : q \in below} |->
                       s[CHOOSE q \in below : newDest \o Tail(q) = r]]
    IN  Overlay(t, copied)

\* fs.promises.readdir(applicationManifestsPath, {withFileTypes: true}):
\* the names of the direct entries, and which of them are directories.
Entries(s) == {q[1] : q \in DOMAIN s}

IsDirectory(s, name) == \E q \in DOMAIN s : q[1] = name /\ Len(q) > 1

-----------------------------------------------------------------------------
(* Inputs the environment can supply *)

\* Local manifests directories: none, empty, one file (two versions), one
\* directory, a file and a directory.
SourceTrees ==
    { NoTree,
      (<<"f">> :> 1),
      (<<"f">> :> 2),
      (<<"d", "g">> :> 1),
      (<<"f">> :> 1) @@ (<<"d", "g">> :> 1) }

\* custom-values documents: none, or one override document.
CustomValues == {"", "replicas: 2"}

Inputs == [srcExists : BOOLEAN, src : SourceTrees, customValues : CustomValues]

\* A directory that does not exist has no entries.
ValidInputs == {i \in Inputs : ~i.srcExists => i.src = NoTree}

NoInputs == [srcExists |-> FALSE, src |-> NoTree, customValues |-> ""]

\* helm template is deterministic in its values: the content id of the
\* rendered manifest is decided by the values document.
RenderOutput(customValues) == IF customValues = "" THEN 1 ELSE 2

NoPrev == [inputs |-> NoInputs, result |-> "none"]

-----------------------------------------------------------------------------
(* Paths written by commitAndPush, relative to gitopsBasePath *)

argocdAppTargetDir == <<gitopsArgoAppsPrefix, applicationName>>

argocdAppTargetFile == Join(argocdAppTargetDir, environment \o ".yaml")

appManifestsTargetDir == <<applicationName, environment, applicationManifestsPath>>

\* The compiled variant: one target directory, the manifest as application.yaml.
targetDir == <<applicationName, environment>>

argocdManifestPath == Join(targetDir, "application.yaml")

-----------------------------------------------------------------------------
(* The log of an invocation *)

Event(op, n, arg) ==
    [op |-> op, n |-> n, arg |-> arg, t |-> now, text |-> "", holds |-> {}]

\* The text a template literal evaluates to, from its pieces.
RECURSIVE Flat(_)
Flat(parts) == IF parts = <<>> THEN "" ELSE Head(parts) \o Flat(Tail(parts))

\* An entry that carries text (a log line, the argument of a command), given
\* by the pieces the text is put together from; holds keeps the pieces.
Said(op, n, arg, parts) ==
    [op |-> op, n |-> n, arg |-> arg, t |-> now, text |-> Flat(parts),
     holds |-> {parts[k] : k \in 1..Len(parts)}]

Log(evs) == trace' = trace \o evs

Count(tr, op) == Cardinality({i \in 1..Len(tr) : tr[i].op = op})

Positions(tr, op) == {i \in 1..Len(tr) : tr[i].op = op}

-----------------------------------------------------------------------------
(* Values documents: trees, as js-yaml and lodash see them *)

\* A node of a document.  t is its type; v the text of a scalar; kids the
\* items of a sequence, or the entries [k, n] of a mapping in insertion
\* order (the order js-yaml dumps them in).
Node(t, v, kids) == [t |-> t, v |-> v, kids |-> kids]

Null == Node("null", "", <<>>)

Str(s) == Node("str", s, <<>>)

Num(s) == Node("int", s, <<>>)

Bool(s) == Node("bool", s, <<>>)

SeqOf(items) == Node("seq", "", items)

Entry(k, n) == [k |-> k, n |-> n]

MapOf(entries) == Node("map", "", entries)

\* JavaScript's undefined: what yaml.load returns for a document without
\* content, and what reading a key that is not there gives.
Absent == Node("absent", "", <<>>)

\* What yaml.load raises a YAMLException for.
ParseError == Node("error", "", <<>>)

\* Array indices as property names.
IndexKeys == <<"0", "1", "2", "3">>

\* The own enumerable properties of a mapping or a sequence, as entries.
Properties(node) ==
    IF node.t = "map" THEN node.kids
    ELSE IF node.t = "seq"
    THEN [i \in 1..Len(node.kids) |-> Entry(IndexKeys[i], node.kids[i])]
    ELSE <<>>

HasKey(node, k) == \E i \in 1..Len(Properties(node)) : Properties(node)[i].k = k

\* object[key]
Lookup(node, k) ==
    IF HasKey(node, k)
    THEN LET ps == Properties(node)
         IN  ps[CHOOSE i \in 1..Len(ps) : ps[i].k = k].n
    ELSE Absent

\* The value at a key path, through nested mappings and sequences.
RECURSIVE Get(_, _)
Get(node, path) ==
    IF path = <<>> THEN node
    ELSE Get(Lookup(node, Head(path)), Tail(path))

\* The key paths of a document: every path that leads through mappings to
\* an entry of a mapping.
RECURSIVE KeyPaths(_)
KeyPaths(node) ==
    IF node.t # "map" THEN {}
    ELSE UNION { {<<node.kids[i].k>>}
                   \cup {<<node.kids[i].k>> \o p : p \in KeyPaths(node.kids[i].n)}
                 : i \in 1..Len(node.kids) }

\* object[key] = value: an existing property keeps its place, a new one
\* goes last.  Only index properties of an array are part of its items.
Assign(object, k, value) ==
    LET ps  == Properties(object)
        new == IF HasKey(object, k)
               THEN [i \in 1..Len(ps) |-> IF ps[i].k = k THEN Entry(k, value) ELSE ps[i]]
               ELSE Append(ps, Entry(k, value))
    IN  IF object.t = "map" THEN MapOf(new)
        ELSE IF Len(new) <= Len(IndexKeys)
                  /\ \A i \in 1..Len(new) : new[i].k = IndexKeys[i]
        THEN SeqOf([i \in 1..Len(new) |-> new[i].n])
        ELSE object

\* A shallow merge (Object.assign): each top-level value of the override
\* replaces the default's, mappings included.
RECURSIVE BaseMergeShallow(_, _, _)
BaseMergeShallow(object, source, i) ==
    LET ps == Properties(source)
    IN  IF i > Len(ps) THEN object
        ELSE BaseMergeShallow(Assign(object, ps[i].k, ps[i].n), source, i + 1)

\* lodash baseMerge(object, source) from the i-th property of source on,
\* with baseMergeDeep for the properties that are objects: a sequence is
\* merged into the destination's sequence, or into a new [] when the
\* destination has none; a mapping is merged into the destination's mapping
\* or sequence, or into a new {} when the destination has neither; any
\* other value is assigned.
RECURSIVE BaseMerge(_, _, _)
BaseMerge(object, source, i) ==
    LET ps == Properties(source)
    IN  IF i > Len(ps) THEN object
        ELSE LET key      == ps[i].k
                 srcValue == ps[i].n
                 objValue == Lookup(object, key)
                 newValue ==
                    IF srcValue.t = "seq"
                    THEN BaseMerge(IF objValue.t = "seq" THEN objValue ELSE SeqOf(<<>>),
                                   srcValue, 1)
                    ELSE IF srcValue.t = "map"
                    THEN BaseMerge(IF objValue.t \in {"map", "seq"}
                                   THEN objValue ELSE MapOf(<<>>),
                                   srcValue, 1)
                    ELSE srcValue
             IN  BaseMerge(Assign(object, key, newValue), source, i + 1)

\* A merge that returns the override alone.
MergeOverrideOnly(object, source) == source

\* _.merge(object, source): a source that is not an object has no
\* properties to merge (the modelled documents have no top-level string).
Merge(object, source) ==
    IF source.t \in {"map", "seq"} THEN BaseMerge(object, source, 1) ELSE object

-----------------------------------------------------------------------------
(* Values documents: their text *)

\* YAML text is a sequence of lines.  A line has its indentation, its kind
\* ("entry": `key: ...`, "item": `- ...`, "scalar": a bare value, "comment"),
\* its key, and its value token: the token's text, whether it is quoted, or
\* open (nothing after the colon or dash: a nested block or nothing follows).
Line(ind, kind, key, tok, q, open) ==
    [ind |-> ind, kind |-> kind, key |-> key, tok |-> tok, q |-> q, open |-> open]

\* Plain scalars the core schema resolves to something other than a string
\* (of the integers, those that occur in the modelled inputs).
NullTexts == {"null", "~", ""}

BoolTexts == {"true", "false"}

IntTexts == {"2", "2024"}

\* How js-yaml resolves a value token.
Resolve(tok, q) ==
    IF q THEN Str(tok)
    ELSE IF tok \in NullTexts THEN Null
    ELSE IF tok \in BoolTexts THEN Bool(tok)
    ELSE IF tok \in IntTexts THEN Num(tok)
    ELSE IF tok = "{}" THEN MapOf(<<>>)
    ELSE IF tok = "[]" THEN SeqOf(<<>>)
    ELSE Str(tok)

\* A writer that never quotes.
NeedsQuotesNever(s) == FALSE

\* js-yaml dump quotes a string whose plain form would be read back as
\* something else.
NeedsQuotes(s) == Resolve(s, FALSE) # Str(s)

IsLeaf(node) == node.t \notin {"map", "seq"} \/ node.kids = <<>>

\* The value token yaml.dump writes for a scalar or an empty collection.
TokenOf(node) ==
    IF node.t = "str" THEN [tok |-> node.v, q |-> NeedsQuotes(node.v)]
    ELSE IF node.t = "null" THEN [tok |-> "null", q |-> FALSE]
    ELSE IF node.t = "map" THEN [tok |-> "{}", q |-> FALSE]
    ELSE IF node.t = "seq" THEN [tok |-> "[]", q |-> FALSE]
    ELSE [tok |-> node.v, q |-> FALSE]

\* yaml.dump of the entries or items of a collection from the i-th on, at
\* indentation ind: one line per scalar, a header line and an indented
\* block per non-empty collection.
RECURSIVE DumpBlock(_, _, _)
DumpBlock(node, ind, i) ==
    IF i > Len(node.kids) THEN <<>>
    ELSE LET kind  == IF node.t = "map" THEN "entry" ELSE "item"
             key   == IF node.t = "map" THEN node.kids[i].k ELSE ""
             child == IF node.t = "map" THEN node.kids[i].n ELSE node.kids[i]
             here  == IF IsLeaf(child)
                      THEN <<Line(ind, kind, key, TokenOf(child).tok,
                                  TokenOf(child).q, FALSE)>>
                      ELSE <<Line(ind, kind, key, "", FALSE, TRUE)>>
                              \o DumpBlock(child, ind + 2, 1)
         IN  here \o DumpBlock(node, ind, i + 1)

\* yaml.dump(document)
Dump(node) ==
    IF IsLeaf(node)
    THEN <<Line(0, "scalar", "", TokenOf(node).tok, TokenOf(node).q, FALSE)>>
    ELSE DumpBlock(node, 0, 1)

\* The end of the group that starts at line i: the last following line
\* that is indented deeper than line i.
RECURSIVE GroupEnd(_, _, _)
GroupEnd(lines, i, j) ==
    IF j < Len(lines) /\ lines[j + 1].ind > lines[i].ind
    THEN GroupEnd(lines, i, j + 1)
    ELSE j

\* The block of lines that starts at line i, parsed: the entries or items
\* of one collection, each with the block nested below it.
RECURSIVE ParseBlock(_)
RECURSIVE ParseGroups(_, _)
ParseGroups(lines, i) ==
    IF i > Len(lines) THEN <<>>
    ELSE LET j        == GroupEnd(lines, i, i)
             l        == lines[i]
             children == SubSeq(lines, i + 1, j)
             value    == IF l.open
                         THEN IF children = <<>> THEN Null ELSE ParseBlock(children)
                         ELSE IF children = <<>> THEN Resolve(l.tok, l.q)
                         ELSE ParseError
         IN  <<Entry(l.key, value)>> \o ParseGroups(lines, j + 1)

ParseBlock(lines) ==
    LET first  == lines[1]
        groups == ParseGroups(lines, 1)
        starts == {i \in 1..Len(lines) : lines[i].ind = first.ind}
    IN  IF \E i \in 1..Len(lines) : lines[i].ind < first.ind THEN ParseError
        ELSE IF \E i \in starts : lines[i].kind # first.kind THEN ParseError
        ELSE IF \E g \in 1..Len(groups) : groups[g].n = ParseError THEN ParseError
        ELSE IF first.kind = "scalar"
        THEN IF Len(lines) = 1 THEN groups[1].n ELSE ParseError
        ELSE IF first.kind = "item"
        THEN SeqOf([g \in 1..Len(groups) |-> groups[g].n])
        ELSE IF \E g, h \in 1..Len(groups) : g # h /\ groups[g].k = groups[h].k
        THEN ParseError
        ELSE MapOf(groups)

\* yaml.load(text): undefined for a text without content.
Load(text) ==
    LET content == SelectSeq(text, LAMBDA l : l.kind # "comment")
    IN  IF content = <<>> THEN Absent ELSE ParseBlock(content)

-----------------------------------------------------------------------------
(* Paths, as node's path.join sees them *)

\* A path string: whether it starts with a slash, its segments between
\* slashes, whether it ends with a slash.  '' has no segments.
PathOf(abs, segs, trail) == [abs |-> abs, segs |-> segs, trail |-> trail]

\* A name without slashes, as a path.
Name(s) == PathOf(FALSE, <<s>>, FALSE)

\* path.normalize's walk over the segments: '.' and empty segments go, '..'
\* takes the segment before it, or stays when there is none and the path is
\* relative.
RECURSIVE NormalizeSegs(_, _, _)
NormalizeSegs(segs, acc, allowAboveRoot) ==
    IF segs = <<>> THEN acc
    ELSE LET seg == Head(segs)
             nxt == IF seg \in {".", ""} THEN acc
                    ELSE IF seg = ".."
                    THEN IF acc # <<>> /\ acc[Len(acc)] # ".."
                         THEN SubSeq(acc, 1, Len(acc) - 1)
                         ELSE IF allowAboveRoot THEN Append(acc, "..") ELSE acc
                    ELSE Append(acc, seg)
         IN  NormalizeSegs(Tail(segs), nxt, allowAboveRoot)

RECURSIVE ConcatSegs(_)
ConcatSegs(paths) ==
    IF paths = <<>> THEN <<>> ELSE Head(paths).segs \o ConcatSegs(Tail(paths))

\* path.join(...paths): the non-empty arguments joined with '/', normalized.
PathJoin(paths) ==
    LET given == SelectSeq(paths, LAMBDA p : p.abs \/ p.segs # <<>>)
        isAbs == given # <<>> /\ given[1].abs
    IN  PathOf(isAbs,
               NormalizeSegs(ConcatSegs(given), <<>>, ~isAbs),
               given # <<>> /\ given[Len(given)].trail)

RECURSIVE JoinSegs(_)
JoinSegs(segs) ==
    IF segs = <<>> THEN ""
    ELSE IF Len(segs) = 1 THEN segs[1]
    ELSE segs[1] \o "/" \o JoinSegs(Tail(segs))

\* The string of a normalized path.
PathString(p) ==
    IF p.segs = <<>>
    THEN IF p.abs THEN "/" ELSE IF p.trail THEN "./" ELSE "."
    ELSE (IF p.abs THEN "/" ELSE "") \o JoinSegs(p.segs)
            \o (IF p.trail THEN "/" ELSE "")

-----------------------------------------------------------------------------
(* generateValuesYaml, src/utils/argocd-app-manifest.ts 33-73 *)

\* argocd-app-manifest.ts 44-56: the default values object.
DefaultValues(a) ==
    MapOf(<<
      Entry("applicationName", Str(a.applicationName \o "-" \o a.environment)),
      Entry("application", MapOf(<<
        Entry("destination", MapOf(<<
          Entry("namespace", Str(a.applicationName)) >>)),
        Entry("source", MapOf(<<
          Entry("repoURL", Str("https://github.com/" \o a.sourceOrg \o "/"
                                  \o a.sourceRepo \o ".git")),
          Entry("targetRevision", Str(a.sourceBranch)),
          Entry("path", Str(PathString(PathJoin(<<
                    a.gitopsPath, Name(a.applicationName), Name(a.environment),
                    a.applicationManifestsPath, PathOf(TRUE, <<>>, TRUE) >>))))
        >>)) >>)) >>)

\* Lines of custom-values documents.
KeyValue(ind, key, tok) == Line(ind, "entry", key, tok, FALSE, FALSE)

KeyOnly(ind, key) == Line(ind, "entry", key, "", FALSE, TRUE)

Item(ind, tok) == Line(ind, "item", "", tok, FALSE, FALSE)

\* The custom-values documents the environment can supply: none; a comment
\* only; an added key; overrides of nested defaults; a scalar, a null, a
\* sequence in the place of a default mapping; a mapping or a sequence in
\* the place of a default scalar; an empty mapping; a quoted and a plain
\* number; a top-level sequence and a top-level scalar; and two texts that
\* are not YAML (a nested block below a scalar, a repeated key).
CustomValuesTexts ==
    { <<>>,
      <<Line(0, "comment", "", "", FALSE, FALSE)>>,
      <<KeyValue(0, "replicas", "2")>>,
      <<KeyOnly(0, "application"), KeyOnly(2, "source"),
        KeyValue(4, "targetRevision", "v1.0.0")>>,
      <<KeyOnly(0, "application"), KeyOnly(2, "destination"),
        KeyValue(4, "namespace", "custom-ns"), KeyOnly(2, "source"),
        KeyValue(4, "targetRevision", "feature/x")>>,
      <<KeyValue(0, "application", "disabled")>>,
      <<KeyOnly(0, "application"), KeyOnly(2, "source")>>,
      <<KeyOnly(0, "applicationName"), KeyValue(2, "name", "x")>>,
      <<KeyOnly(0, "application"), KeyOnly(2, "destination"),
        KeyOnly(4, "namespace"), Item(6, "a"), Item(6, "b")>>,
      <<KeyOnly(0, "application"), KeyOnly(2, "source"), Item(4, "a")>>,
      <<KeyValue(0, "application", "{}")>>,
      <<KeyOnly(0, "application"), KeyOnly(2, "source"),
        Line(4, "entry", "targetRevision", "2024", TRUE, FALSE)>>,
      <<KeyOnly(0, "application"), KeyOnly(2, "source"),
        KeyValue(4, "targetRevision", "2024")>>,
      <<Item(0, "a")>>,
      <<Line(0, "scalar", "", "2024", FALSE, FALSE)>>,
      <<KeyValue(0, "a", "1"), KeyValue(2, "b", "2")>>,
      <<KeyValue(0, "a", "1"), KeyValue(0, "a", "2")>> }

\* The calls followed: names and branches that read as plain words or as
\* numbers, gitopsPath './' or 'gitops/', applicationManifestsPath './' or
\* 'k8s'.
ValuesArgs ==
    [ applicationName : {applicationName, "2024"},
      environment : {environment},
      sourceRepo : {"gitops"},
      sourceOrg : {"org"},
      sourceBranch : {"main", "2024"},
      gitopsPath : {PathOf(FALSE, <<".">>, TRUE), PathOf(FALSE, <<"gitops">>, TRUE)},
      customValues : CustomValuesTexts,
      applicationManifestsPath :
          {PathOf(FALSE, <<".">>, TRUE), PathOf(FALSE, <<"k8s">>, FALSE)} ]

NoArgs ==
    [ applicationName |-> applicationName, environment |-> environment,
      sourceRepo |-> "gitops", sourceOrg |-> "org", sourceBranch |-> "main",
      gitopsPath |-> PathOf(FALSE, <<".">>, TRUE), customValues |-> <<>>,
      applicationManifestsPath |-> PathOf(FALSE, <<".">>, TRUE) ]

\* generateArgoCDAppManifest and generateValuesYaml at rest.
RenderIdle ==
    /\ customValuesFile = FALSE
    /\ helmTemplateExitCode = -1
    /\ helmTemplateStderr = ""

ValuesIdle ==
    /\ gvpc = "idle"
    /\ args = NoArgs
    /\ defaultValues = Absent
    /\ valuesYaml = <<>>
    /\ valuesError = ""

-----------------------------------------------------------------------------
(* What the workflow and the remote repository supply *)

\* Values of the gitops-token input.  No other input, and no text the
\* program is written with, holds one of them.
Tokens == {"ghs_A", "ghs_B"}

\* Values of the gitops-branch input ("": not supplied).
BranchInputs == {"", "release"}

\* Names the default branch of the GitOps repository can have.
DefaultBranches == {"main", "master"}

\* The surroundings of an invocation: the token and branch inputs, the
\* default branch of the remote repository, its other branches.
Envs ==
    [ token : Tokens, branch : BranchInputs, defaultBranch : DefaultBranches,
      otherBranches : SUBSET {"release"} ]

\* The surroundings the invocations of Spec run in.
DefaultEnv ==
    [ token |-> "ghs_A", branch |-> "", defaultBranch |-> "main",
      otherBranches |-> {} ]

\* Branches of the remote repository.
RemoteBranches == {env.defaultBranch} \cup env.otherBranches

\* Nothing runs on the host besides the invocation followed.
HostIdle ==
    /\ hostNow = 0
    /\ proc = <<>>
    /\ tmp = <<>>

NoParse == [gitopsOrg |-> <<>>, gitopsRepoName |-> <<>>]

\* parseRepositoryInfo at rest.
ParseIdle ==
    /\ ppc = "idle"
    /\ repository = <<>>
    /\ contextOwner = <<>>
    /\ parsed = NoParse

\* A commit that stands for "none".
NoCommit == [parents |-> <<>>, tree |-> 0, message |-> "", at |-> 0]

\* No race is followed.
RaceIdle ==
    /\ origin = NoCommit
    /\ job = <<>>

NoTargets ==
    [ gitopsBasePath |-> PathOf(FALSE, <<>>, FALSE),
      argocdAppTargetFile |-> PathOf(FALSE, <<>>, FALSE),
      appManifestsTargetDir |-> PathOf(FALSE, <<>>, FALSE) ]

\* No path computation is followed.
PathsIdle == targets = NoTargets

-----------------------------------------------------------------------------
(* Initial state: the first invocation is about to read its inputs *)

InitialRemote == (<<"README.md">> :> 1)

\* The remote branch before the first invocation: never deployed to, or
\* holding the pointer manifest of an earlier deployment.
InitialRemotes == {InitialRemote, Put(InitialRemote, argocdAppTargetFile, 1)}

\* run is about to read its inputs.
RunStart ==
    /\ pc = "start"
    /\ variant = "current"
    /\ runs = 1
    /\ remote \in InitialRemotes
    /\ head = NoTree
    /\ index = NoTree
    /\ wt = NoTree
    /\ wcExists = FALSE
    /\ inputs = NoInputs
    /\ manifest = 0
    /\ gitDiffExitCode = -1
    /\ hasChanges = FALSE
    /\ attempt = 0
    /\ now = 0
    /\ wakeAt = 0
    /\ trace = <<>>
    /\ error = ""
    /\ failed = <<>>
    /\ outputs = 0
    /\ prev = NoPrev
    /\ RenderIdle
    /\ ValuesIdle
    /\ HostIdle
    /\ ParseIdle
    /\ RaceIdle
    /\ PathsIdle

Init ==
    /\ RunStart
    /\ env = DefaultEnv

-----------------------------------------------------------------------------
(* run, src/main.ts *)

\* A throw inside run's try block: control goes to run's catch handler.
Throw(message) ==
    /\ error' = message
    /\ pc' = "catch"

\* main.ts 26, 38, 42: the inputs the run cannot do without, in the order
\* they are read.
InputsRead == <<"gitops-repository", "gitops-token", "environment">>

\* A reader that insists on the token only.
RequiredTokenOnly(name) == name = "gitops-token"

\* main.ts 30-36 (neither the input nor GITOPS_REPOSITORY), 38 and 42
\* ({required: true}): a missing value of these inputs is an error.
Required(name) ==
    name \in {"gitops-repository", "gitops-token", "environment"}

\* main.ts 33-35, and core.getInput with {required: true}: the error raised
\* for a missing required input.
MissingInputMessage(name) ==
    IF name = "gitops-repository"
    THEN "gitops-repository input or GITOPS_REPOSITORY environment variable must be provided"
    ELSE "Input required and not supplied: " \o name

\* The log entry of reading one input (arg 1: a value was supplied).
GetInputOp(name) == "getInput " \o name

\* The reads of InputsRead[k..], up to and including the first one that
\* raises.
RECURSIVE InputReads(_, _)
InputReads(k, missing) ==
    IF k > Len(InputsRead) THEN <<>>
    ELSE LET name == InputsRead[k]
         IN  IF name \in missing
             THEN <<Event(GetInputOp(name), k, 0)>>
                    \o (IF Required(name) THEN <<>> ELSE InputReads(k + 1, missing))
             ELSE <<Event(GetInputOp(name), k, 1)>> \o InputReads(k + 1, missing)

\* main.ts 39-40: the branch run works on: the input, or 'main'.
RunGitopsBranch(input) == IF input = "" THEN "main" ELSE input

\* The gitopsBranch argument of cloneGitOpsRepo and commitAndPush: run's
\* value, or the argument of a direct call.
gitopsBranch ==
    IF variant = "current" THEN RunGitopsBranch(env.branch) ELSE env.branch

\* A run that never registers the token.
MaskTokenNever(token) == <<>>

\* main.ts 57-59: register the token as a secret, and say so.
MaskToken(token) ==
    <<Said("setSecret", 0, 0, <<token>>),
      Said("info", 0, 0, <<"Token has been masked in logs">>)>>

\* main.ts 55, 62-74: what run writes to the log about its inputs (the
\* leading pictographs left out).
RunInfo(customValues) ==
    <<Said("info", 0, 0, <<"Git Organization: ", gitopsOrg>>),
      Said("info", 0, 0, <<"Git Repository: ", gitopsRepoName>>),
      Said("info", 0, 0, <<"Git Branch: ", gitopsBranch>>),
      Said("info", 0, 0, <<"Git Path: ", gitopsPath>>),
      Said("info", 0, 0, <<"Environment: ", environment>>),
      Said("info", 0, 0, <<"Application Name: ", applicationName>>),
      Said("info", 0, 0, <<"Application Manifests Path: ", applicationManifestsPath>>),
      Said("info", 0, 0, <<"ArgoCD App Helm Chart: ", argoCDAppHelmChartGitURL>>),
      Said("info", 0, 0, <<"Custom Values: ", customValues>>),
      Said("notice", 0, 0,
           <<"We are going to push [Env: ", environment,
             "] ArgoCD ApplicationSet for [App: ", applicationName,
             "] to [Repo: ", gitopsOrg, "/", gitopsRepoName,
             "] on the branch [Branch: ", gitopsBranch, "].">>)>>

\* main.ts 25-74: read and check the inputs, parse the repository, register
\* the token as a secret, log the inputs.  The environment decides which
\* inputs are missing, and what the local manifests directory and the
\* custom values hold.
GetInputs ==
    /\ pc = "start"
    /\ \E missing \in SUBSET {InputsRead[k] : k \in 1..Len(InputsRead)},
          i \in ValidInputs :
          LET reads == InputReads(1, missing)
              last  == reads[Len(reads)]
          IN  /\ inputs' = i
              /\ IF last.arg = 0 /\ Required(InputsRead[last.n])
                 THEN /\ Log(reads)
                      /\ Throw(MissingInputMessage(InputsRead[last.n]))
                 ELSE /\ Log(reads
                             \o <<Said("info", 0, 0,
                                       <<"Repository parsed as: ", gitopsOrg, "/",
                                         gitopsRepoName>>)>>
                             \o MaskToken(env.token)
                             \o RunInfo(i.customValues))
                      /\ pc' = "workdir"
                      /\ UNCHANGED error
    /\ UNCHANGED <<variant, runs, remote, head, index, wt, wcExists, manifest,
                   gitDiffExitCode, hasChanges, attempt, now, wakeAt, failed,
                   outputs, prev>>
    /\ UNCHANGED <<renderVars, valuesVars, envVars, hostVars, parseVars, raceVars, pathVars>>

\* exec.exec as the routine uses it (git.ts 213-216, and the mocks of
\* __tests__/commitAndPush.test.js 66-73): the call resolves with the exit
\* code when the process ran and either exited 0 or ignoreReturnCode is set;
\* it rejects otherwise (a non-zero exit, or a process that cannot start).
ExecResolves(started, code, ignoreReturnCode) ==
    started /\ (ignoreReturnCode \/ code = 0)

\* What exec.exec rejects with when the process exits non-zero and
\* ignoreReturnCode is not set (tools.ts 144).
ExecFailed(tool, code) ==
    "The process '" \o tool \o "' failed with exit code " \o ToString(code)

\* main.ts 79-81: a fresh, empty directory for the working copy.
PrepareWorkdir ==
    /\ pc = "workdir"
    /\ \E rmOk \in BOOLEAN, mkdirOk \in BOOLEAN :
          IF ~rmOk
          THEN /\ Log(<<Event("rmRF", 0, 0)>>)
               /\ Throw("rmRF failed")
               /\ UNCHANGED wcExists
          ELSE IF ~mkdirOk
          THEN /\ Log(<<Event("rmRF", 0, 0), Event("mkdirP", 0, 0)>>)
               /\ Throw("mkdirP failed")
               /\ UNCHANGED wcExists
          ELSE /\ Log(<<Event("rmRF", 0, 0), Event("mkdirP", 0, 0)>>)
               /\ wcExists' = TRUE
               /\ pc' = "clone"
               /\ UNCHANGED error
    /\ UNCHANGED <<variant, runs, remote, head, index, wt, inputs, manifest,
                   gitDiffExitCode, hasChanges, attempt, now, wakeAt, failed,
                   outputs, prev>>
    /\ UNCHANGED <<renderVars, valuesVars, envVars, hostVars, parseVars, raceVars, pathVars>>

\* git.ts 57: the clone URL, from its pieces.
CloneUrl(token, org, repo) ==
    <<"https://x-access-token:", token, "@github.com/", org, "/", repo, ".git">>

\* git.ts 58: the clone command.
CloneCommand == Said("clone", 0, 0, CloneUrl(env.token, gitopsOrg, gitopsRepoName))

\* A clone that is tried a second time when it fails.
FailedCloneRetried == <<CloneCommand, CloneCommand>>

\* git.ts 58, 79-82: the clone command is issued once; its failure goes to
\* the handler.
FailedClone == <<CloneCommand>>

\* git.ts 79-82: every failure inside cloneGitOpsRepo is wrapped.
CloneFailed(reason) == "Failed to clone GitOps repository: " \o reason

\* A handler of the failed checkout that only logs it.
CreateBranchSkipped(branch) ==
    <<Said("debug", 0, 0, <<"Branch ", branch, " doesn't exist, creating new branch">>)>>

\* git.ts 64-67: the handler of the failed checkout: log, then
\* `git checkout -b <branch>`.
CreateBranch(branch) ==
    <<Said("debug", 0, 0, <<"Branch ", branch, " doesn't exist, creating new branch">>),
      Said("checkout_b", 0, 0, <<branch>>)>>

\* git.ts 48-83, called at main.ts 84-90: clone the repository into the
\* working copy, check the branch out (creating it when the checkout
\* fails), set the committer's name and e-mail.  The checkout fails when the
\* remote has no such branch; the environment decides which other command,
\* if any, fails.  A failure is wrapped and rethrown.  The branches of the
\* remote hold the same tree, remote, until one of them is pushed to.
CloneGitOpsRepo ==
    /\ pc = "clone"
    /\ \E failAt \in {"none", "clone", "checkout_b", "config_name", "config_email"} :
          LET cloned  == <<CloneCommand, Event("clone_ok", 0, 0)>>
              exists  == gitopsBranch \in RemoteBranches
              create  == CreateBranch(gitopsBranch)
              checked == cloned
                           \o (IF gitopsBranch = "" THEN <<>>
                               ELSE <<Said("checkout", 0, 0, <<gitopsBranch>>)>>
                                      \o (IF exists THEN <<>> ELSE create))
              named   == checked \o <<Event("config_name", 0, 0)>>
              mailed  == named \o <<Event("config_email", 0, 0)>>
          IN  /\ failAt = "checkout_b" => (gitopsBranch # "" /\ ~exists)
              /\ CASE failAt = "clone" ->
                        /\ Log(FailedClone)
                        /\ Throw(CloneFailed(ExecFailed("git", 128)))
                        /\ UNCHANGED <<head, index, wt>>
                   [] failAt = "checkout_b" ->
                        /\ Log(checked)
                        /\ Throw(CloneFailed(ExecFailed("git", 128)))
                        /\ head' = remote /\ index' = remote /\ wt' = remote
                   [] failAt = "config_name" ->
                        /\ Log(named)
                        /\ Throw(CloneFailed(ExecFailed("git", 128)))
                        /\ head' = remote /\ index' = remote /\ wt' = remote
                   [] failAt = "config_email" ->
                        /\ Log(mailed)
                        /\ Throw(CloneFailed(ExecFailed("git", 128)))
                        /\ head' = remote /\ index' = remote /\ wt' = remote
                   [] OTHER ->
                        /\ Log(mailed
                                \o <<Said("debug", 0, 0,
                                          <<"Successfully cloned ", gitopsOrg, "/",
                                            gitopsRepoName>>)>>)
                        /\ head' = remote /\ index' = remote /\ wt' = remote
                        /\ pc' = "values"
                        /\ UNCHANGED error
    /\ UNCHANGED <<variant, runs, remote, wcExists, inputs, manifest,
                   gitDiffExitCode, hasChanges, attempt, now, wakeAt, failed,
                   outputs, prev>>
    /\ UNCHANGED <<renderVars, valuesVars, envVars, hostVars, parseVars, raceVars, pathVars>>

\* argocd-app-manifest.ts 33-73, called at main.ts 95-104: compose the
\* values document; an override document that does not parse is an error.
GenerateValuesYaml ==
    /\ pc = "values"
    /\ Log(<<Event("values", 0, 0)>>)
    /\ \E parses \in BOOLEAN :
          IF inputs.customValues = "" \/ parses
          THEN /\ pc' = "render"
               /\ UNCHANGED error
          ELSE Throw("Invalid custom values YAML: " \o "YAMLException")
    /\ UNCHANGED <<variant, runs, remote, head, index, wt, wcExists, inputs,
                   manifest, gitDiffExitCode, hasChanges, attempt, now, wakeAt,
                   failed, outputs, prev>>
    /\ UNCHANGED <<renderVars, valuesVars, envVars, hostVars, parseVars, raceVars, pathVars>>

\* Exit statuses a failing helm process ends with, and what it writes to
\* standard error.
HelmExitCodes == {1, 2}

HelmStderrTexts == {"Error: template: invalid values", "Error: chart not found"}

\* argocd-app-manifest.ts 110-114, 128-132: the errors generateArgoCDAppManifest
\* raises itself for a helm exit code that is not 0.
HelmFailed(subcommand, code, stderr) ==
    "helm " \o subcommand \o " failed with exit code " \o ToString(code)
        \o ": " \o stderr

\* tools.ts 124-146 as generateArgoCDAppManifest calls it (105-109, 117-127):
\* no options are passed, so ignoreReturnCode is not set.
ExecWithOutputIgnoreReturnCode == FALSE

\* argocd-app-manifest.ts 135: the unlink is reached when nothing before it
\* has thrown.
UnlinkReached(failAt) == failAt \in {"unlink", "output", "none"}

\* argocd-app-manifest.ts 88-153, called at main.ts 107-110: set up helm,
\* write the values to a temporary file, check the chart with helm fetch,
\* render with helm template, remove the temporary file, write the manifest
\* to a file of its own.  The environment decides which step, if any,
\* fails, with which exit code and standard-error text.
GenerateArgoCDAppManifest ==
    /\ pc = "render"
    /\ \E failAt \in {"none", "tool", "write", "fetch", "template", "unlink", "output"},
          code \in HelmExitCodes, stderr \in HelmStderrTexts :
          LET fetchCode     == IF failAt = "fetch" THEN code ELSE 0
              templateCode  == IF failAt = "template" THEN code ELSE 0
              fetchResolves == ExecResolves(TRUE, fetchCode,
                                            ExecWithOutputIgnoreReturnCode)
              templateResolves == ExecResolves(TRUE, templateCode,
                                               ExecWithOutputIgnoreReturnCode)
              call     == <<Event("render", 0, 0)>>
              written  == call \o <<Event("writeFile_values", 0, 0)>>
              fetched  == written \o <<Said("helm_fetch", 0, fetchCode,
                                            <<argoCDAppHelmChartGitURL>>)>>
              rendered == fetched \o <<Said("helm_template", 0, templateCode,
                                            <<argoCDAppHelmChartGitURL>>)>>
              unlinked == rendered \o <<Event("unlink_values", 0, 0)>>
              created  == failAt \notin {"tool", "write"}
              removed  == UnlinkReached(failAt) /\ failAt # "unlink"
          IN  /\ customValuesFile' = (created /\ ~removed)
              /\ helmTemplateExitCode' =
                    IF failAt \in {"tool", "write", "fetch"} THEN -1 ELSE templateCode
              /\ helmTemplateStderr' = IF failAt = "template" THEN stderr ELSE ""
              /\ CASE failAt = "tool" ->
                        /\ Log(call)
                        /\ Throw(ExecFailed("helm", code))
                        /\ UNCHANGED manifest
                   [] failAt = "write" ->
                        /\ Log(written)
                        /\ Throw("ENOSPC: no space left on device, write")
                        /\ UNCHANGED manifest
                   [] failAt = "fetch" ->
                        /\ Log(fetched)
                        /\ IF fetchResolves
                           THEN Throw(HelmFailed("fetch", fetchCode, stderr))
                           ELSE Throw(ExecFailed("helm", fetchCode))
                        /\ UNCHANGED manifest
                   [] failAt = "template" ->
                        /\ Log(rendered)
                        /\ IF templateResolves
                           THEN Throw(HelmFailed("template", templateCode, stderr))
                           ELSE Throw(ExecFailed("helm", templateCode))
                        /\ UNCHANGED manifest
                   [] failAt = "unlink" ->
                        /\ Log(unlinked)
                        /\ Throw("EPERM: operation not permitted, unlink")
                        /\ UNCHANGED manifest
                   [] failAt = "output" ->
                        /\ Log(unlinked \o <<Event("writeFile_manifest", 0, 0)>>)
                        /\ Throw("ENOSPC: no space left on device, write")
                        /\ UNCHANGED manifest
                   [] OTHER ->
                        /\ Log(unlinked \o <<Event("writeFile_manifest", 0, 0),
                                             Event("summary", 0, 0)>>)
                        /\ manifest' = RenderOutput(inputs.customValues)
                        /\ pc' = "place"
                        /\ UNCHANGED error
    /\ UNCHANGED <<variant, runs, remote, head, index, wt, wcExists, inputs,
                   gitDiffExitCode, hasChanges, attempt, now, wakeAt, failed,
                   outputs, prev>>
    /\ UNCHANGED <<valuesVars, envVars, hostVars, parseVars, raceVars, pathVars>>

-----------------------------------------------------------------------------
(* commitAndPush, src/utils/git.ts 108-262 *)

\* git.ts 258-261: every error raised inside commitAndPush is wrapped.  The
\* current variant is called by run (its catch handler takes over); a call
\* followed on its own ends with the error raised.
CommitAndPushThrow(message) ==
    /\ error' = "Failed to commit and push changes: " \o message
    /\ pc' = IF variant = "current" THEN "catch" ELSE "threw"

\* git.ts 122-139: create argocd-apps/<applicationName> and copy the
\* rendered manifest to <environment>.yaml inside it.
PlaceArgoCDApp ==
    /\ pc = "place"
    /\ \E ok \in BOOLEAN :
          IF ok
          THEN /\ wt' = CpFile(wt, manifest, "manifest.yaml", argocdAppTargetFile)
               /\ pc' = "copy"
               /\ UNCHANGED error
          ELSE /\ CommitAndPushThrow("cp failed")
               /\ UNCHANGED wt
    /\ Log(<<Event("mkdirP", 0, 0), Event("cp_pointer", 0, manifest)>>)
    /\ UNCHANGED <<variant, runs, remote, head, index, wcExists, inputs,
                   manifest, gitDiffExitCode, hasChanges, attempt, now, wakeAt,
                   failed, outputs, prev>>
    /\ UNCHANGED <<renderVars, valuesVars, envVars, hostVars, parseVars, raceVars, pathVars>>

\* A copy step that does not look whether the directory is there.
SourceExistsUnchecked(i) == TRUE

\* git.ts 154: fs.existsSync(applicationManifestsPath)
SourceExists(i) == i.srcExists

\* A copy that makes the target directory a mirror of the local one: what
\* the local directory does not hold is removed from the target.
CopyEntriesMirrored(t, s, names, dest) ==
    LET kept   == {q \in DOMAIN t : ~IsPrefix(dest, q)}
        copied == {dest \o q : q \in DOMAIN s}
    IN  [q \in kept \cup copied |->
            IF q \in copied THEN s[SubSeq(q, Len(dest) + 1, Len(q))] ELSE t[q]]

\* git.ts 159-172: the copy loop over the direct entries of the local
\* manifests directory: a directory recursively, a file singly.
RECURSIVE CopyEntries(_, _, _, _)
CopyEntries(t, s, names, dest) ==
    IF names = {} THEN t
    ELSE LET name == CHOOSE x \in names : TRUE
             copied == IF IsDirectory(s, name)
                       THEN CpDir(t, s, name, Join(dest, name))
                       ELSE CpFile(t, s[<<name>>], name, Join(dest, name))
         IN  CopyEntries(copied, s, names \ {name}, dest)

\* One log line per copied entry (its kind in arg: 1 directory, 0 file).
RECURSIVE CopyEvents(_, _)
CopyEvents(s, names) ==
    IF names = {} THEN <<>>
    ELSE LET name == CHOOSE x \in names : TRUE
         IN  <<Event("cp_entry", 0, IF IsDirectory(s, name) THEN 1 ELSE 0)>>
                 \o CopyEvents(s, names \ {name})

\* git.ts 141-177: create the manifests target directory and copy the local
\* manifests into it, or warn when the local directory does not exist.
CopyApplicationManifests ==
    /\ pc = "copy"
    /\ \E ok \in BOOLEAN :
          IF ~ok
          THEN /\ CommitAndPushThrow("cp failed")
               /\ Log(<<Event("mkdirP", 0, 0)>>)
               /\ UNCHANGED wt
          ELSE IF SourceExists(inputs)
          THEN IF ~inputs.srcExists
               THEN \* readdir of a directory that is not there
                    /\ CommitAndPushThrow("ENOENT: no such file or directory, scandir")
                    /\ Log(<<Event("mkdirP", 0, 0), Event("readdir", 0, 0)>>)
                    /\ UNCHANGED wt
               ELSE /\ wt' = CopyEntries(wt, inputs.src, Entries(inputs.src),
                                         appManifestsTargetDir)
                    /\ Log(<<Event("mkdirP", 0, 0), Event("readdir", 0, 0)>>
                              \o CopyEvents(inputs.src, Entries(inputs.src)))
                    /\ pc' = "status"
                    /\ UNCHANGED error
          ELSE /\ Log(<<Event("mkdirP", 0, 0), Event("warning_missing", 0, 0)>>)
               /\ pc' = "status"
               /\ UNCHANGED <<wt, error>>
    /\ UNCHANGED <<variant, runs, remote, head, index, wcExists, inputs,
                   manifest, gitDiffExitCode, hasChanges, attempt, now, wakeAt,
                   failed, outputs, prev>>
    /\ UNCHANGED <<renderVars, valuesVars, envVars, hostVars, parseVars, raceVars, pathVars>>

\* git.ts 179-197: show `git status` and `tree`.  Both go through
\* execWithOutput without ignoreReturnCode: a non-zero exit rejects.
GitStatusAndTree ==
    /\ pc = "status"
    /\ \E statusOk \in BOOLEAN, treeOk \in BOOLEAN :
          IF ~statusOk
          THEN /\ Log(<<Event("status", 0, 0)>>)
               /\ CommitAndPushThrow("The process 'git' failed with exit code 128")
          ELSE IF ~treeOk
          THEN /\ Log(<<Event("status", 0, 0), Event("tree", 0, 0)>>)
               /\ CommitAndPushThrow("Unable to locate executable file: tree")
          ELSE /\ Log(<<Event("status", 0, 0), Event("tree", 0, 0)>>)
               /\ pc' = "add"
               /\ UNCHANGED error
    /\ UNCHANGED <<variant, runs, remote, head, index, wt, wcExists, inputs,
                   manifest, gitDiffExitCode, hasChanges, attempt, now, wakeAt,
                   failed, outputs, prev>>
    /\ UNCHANGED <<renderVars, valuesVars, envVars, hostVars, parseVars, raceVars, pathVars>>

\* `git add <dir>`: the index takes the working tree's files below dir.
Stage(idx, w, dir) ==
    LET keep  == {q \in DOMAIN idx : ~IsPrefix(dir, q)}
        taken == {q \in DOMAIN w : IsPrefix(dir, q)}
    IN  [q \in keep \cup taken |-> IF q \in taken THEN w[q] ELSE idx[q]]

\* The log entry of `git add <pathspec>`.
AddOp(pathspec) == "add " \o pathspec

\* A staging step that stages the whole working tree in one command.
GitAddAll ==
    /\ pc = "add"
    /\ \E ok \in BOOLEAN :
          IF ok
          THEN /\ index' = wt
               /\ Log(<<Event(AddOp("."), 1, 0), Event("add_ok", 1, 0)>>)
               /\ pc' = "diff"
               /\ UNCHANGED error
          ELSE /\ Log(<<Event(AddOp("."), 1, 0)>>)
               /\ CommitAndPushThrow("The process 'git' failed with exit code 128")
               /\ UNCHANGED index
    /\ UNCHANGED <<variant, runs, remote, head, wt, wcExists, inputs, manifest,
                   gitDiffExitCode, hasChanges, attempt, now, wakeAt, failed,
                   outputs, prev>>
    /\ UNCHANGED <<renderVars, valuesVars, envVars, hostVars, parseVars, raceVars, pathVars>>

\* A staging step that starts the second command without waiting for the
\* first.
GitAddUnawaited ==
    /\ pc = "add"
    /\ \E failing \in 0..2 :
          LET first  == Stage(index, wt, <<gitopsArgoAppsPrefix>>)
              second == Stage(first, wt, <<applicationName>>)
              add1   == Event(AddOp("./" \o gitopsArgoAppsPrefix), 1, 0)
              add2   == Event(AddOp("./" \o applicationName), 2, 0)
          IN  CASE failing = 1 ->
                     /\ Log(<<add1>>)
                     /\ CommitAndPushThrow("The process 'git' failed with exit code 128")
                     /\ UNCHANGED index
                [] failing = 2 ->
                     /\ Log(<<add1, Event("add_ok", 1, 0), add2>>)
                     /\ CommitAndPushThrow("The process 'git' failed with exit code 128")
                     /\ index' = first
                [] OTHER ->
                     /\ Log(<<add1, add2, Event("add_ok", 1, 0),
                              Event("add_ok", 2, 0)>>)
                     /\ index' = second
                     /\ pc' = "diff"
                     /\ UNCHANGED error
    /\ UNCHANGED <<variant, runs, remote, head, wt, wcExists, inputs, manifest,
                   gitDiffExitCode, hasChanges, attempt, now, wakeAt, failed,
                   outputs, prev>>
    /\ UNCHANGED <<renderVars, valuesVars, envVars, hostVars, parseVars, raceVars, pathVars>>

\* git.ts 199-206: `git add ./argocd-apps`, awaited, then
\* `git add ./<applicationName>`, awaited, both with cwd gitopsBasePath.
\* Neither sets ignoreReturnCode: the first command that fails ends the step.
GitAdd ==
    /\ pc = "add"
    /\ \E failing \in 0..2 :
          LET first  == Stage(index, wt, <<gitopsArgoAppsPrefix>>)
              second == Stage(first, wt, <<applicationName>>)
              add1   == Event(AddOp("./" \o gitopsArgoAppsPrefix), 1, 0)
              add2   == Event(AddOp("./" \o applicationName), 2, 0)
          IN  CASE failing = 1 ->
                     /\ Log(<<add1>>)
                     /\ CommitAndPushThrow("The process 'git' failed with exit code 128")
                     /\ UNCHANGED index
                [] failing = 2 ->
                     /\ Log(<<add1, Event("add_ok", 1, 0), add2>>)
                     /\ CommitAndPushThrow("The process 'git' failed with exit code 128")
                     /\ index' = first
                [] OTHER ->
                     /\ Log(<<add1, Event("add_ok", 1, 0),
                              add2, Event("add_ok", 2, 0)>>)
                     /\ index' = second
                     /\ pc' = "diff"
                     /\ UNCHANGED error
    /\ UNCHANGED <<variant, runs, remote, head, wt, wcExists, inputs, manifest,
                   gitDiffExitCode, hasChanges, attempt, now, wakeAt, failed,
                   outputs, prev>>
    /\ UNCHANGED <<renderVars, valuesVars, envVars, hostVars, parseVars, raceVars, pathVars>>

\* `git diff --cached --quiet`: 0 when the index equals the last commit, 1
\* when it differs.
DiffExit(idx, hd) == IF idx = hd THEN 0 ELSE 1

\* Exit codes the diff step can end with: the comparison's, or git's own
\* failure code.
DiffExitCodes(idx, hd) == {DiffExit(idx, hd), 128}

\* A change check read the wrong way round.
NoChangesInverted(exitCode) == exitCode # 0

\* A change check that takes every completed diff for "nothing to commit".
NoChangesWhenResolved(exitCode) == exitCode >= 0

\* git.ts 218: exit code 0 means there is nothing to commit.
NoChanges(exitCode) == exitCode = 0

\* git.ts 208-221: the change check, run with ignoreReturnCode set.
GitDiff ==
    /\ pc = "diff"
    /\ \E started \in BOOLEAN, code \in DiffExitCodes(index, head) :
          IF ~ExecResolves(started, code, TRUE)
          THEN /\ Log(<<Event("diff", 0, -1)>>)
               /\ CommitAndPushThrow("Unable to locate executable file: git")
               /\ UNCHANGED gitDiffExitCode
          ELSE /\ gitDiffExitCode' = code
               /\ UNCHANGED error
               /\ IF NoChanges(code)
                  THEN /\ Log(<<Event("diff", 0, code), Event("info_nochanges", 0, 0)>>)
                       /\ pc' = "returned"
                  ELSE /\ Log(<<Event("diff", 0, code)>>)
                       /\ pc' = "commit"
    /\ UNCHANGED <<variant, runs, remote, head, index, wt, wcExists, inputs,
                   manifest, hasChanges, attempt, now, wakeAt, failed, outputs,
                   prev>>
    /\ UNCHANGED <<renderVars, valuesVars, envVars, hostVars, parseVars, raceVars, pathVars>>

\* git.ts 223-232: commit the staged tree.  git refuses to commit when
\* nothing is staged; the command can also fail for reasons of its own.
GitCommit ==
    /\ pc = "commit"
    /\ \E ok \in BOOLEAN :
          IF ok /\ index # head
          THEN /\ Log(<<Event("commit", 0, 0), Event("commit_ok", 0, 0)>>)
               /\ head' = index
               /\ attempt' = 0
               /\ pc' = "push"
               /\ UNCHANGED error
          ELSE /\ Log(<<Event("commit", 0, 0)>>)
               /\ CommitAndPushThrow("The process 'git' failed with exit code 1")
               /\ UNCHANGED <<head, attempt>>
    /\ UNCHANGED <<variant, runs, remote, index, wt, wcExists, inputs, manifest,
                   gitDiffExitCode, hasChanges, now, wakeAt, failed, outputs,
                   prev>>
    /\ UNCHANGED <<renderVars, valuesVars, envVars, hostVars, parseVars, raceVars, pathVars>>

-----------------------------------------------------------------------------
(* The push retry loop, git.ts 234-257 *)

\* A target that is always the branch name, supplied or not.
pushBranchAsSupplied == gitopsBranch

\* git.ts 235: the target of the push: the branch, or HEAD when none was
\* supplied.
pushBranch == IF gitopsBranch # "" THEN gitopsBranch ELSE "HEAD"

\* A retry test that gives up one attempt early.
RetryAllowedOffByOne(a) == a < maxRetries - 1

\* git.ts 247: a failed attempt is retried while attempts remain.
RetryAllowed(a) == a < maxRetries

\* git.ts 248: the delay that follows the failed attempt with loop index a.
RetryDelay(a) == retryDelays[a + 1]

\* A warning that counts the attempts from 0, as the loop variable does.
RetryWarningZeroBased(a) ==
    "Push failed (attempt " \o ToString(a) \o "/" \o ToString(maxRetries + 1)
        \o "), retrying in " \o ToString(RetryDelay(a) \div 1000) \o "s..."

\* git.ts 249-251: the warning of the failed attempt with loop index a.  The
\* delays are whole seconds, so delay / 1000 prints as an integer.
RetryWarning(a) ==
    "Push failed (attempt " \o ToString(a + 1) \o "/" \o ToString(maxRetries + 1)
        \o "), retrying in " \o ToString(RetryDelay(a) \div 1000) \o "s..."

\* An accepted push that does not leave the loop (the `return` missing).
PushSucceededNoReturn ==
    /\ pc = "push"
    /\ attempt <= maxRetries
    /\ Log(<<Said("push", attempt + 1, 0, <<pushBranch>>), Event("push_ok", attempt + 1, 0),
             Event("info_pushed", 0, 0)>>)
    /\ remote' = head
    /\ IF attempt < maxRetries
       THEN /\ attempt' = attempt + 1
            /\ pc' = "push"
       ELSE /\ pc' = "returned"
            /\ UNCHANGED attempt
    /\ UNCHANGED <<variant, runs, head, index, wt, wcExists, inputs, manifest,
                   gitDiffExitCode, hasChanges, now, wakeAt, error, failed,
                   outputs, prev>>
    /\ UNCHANGED <<renderVars, valuesVars, envVars, hostVars, parseVars, raceVars, pathVars>>

\* git.ts 241-245: the push is accepted; log and return.
PushSucceeded ==
    /\ pc = "push"
    /\ attempt <= maxRetries
    /\ Log(<<Said("push", attempt + 1, 0, <<pushBranch>>), Event("push_ok", attempt + 1, 0),
             Event("info_pushed", 0, 0)>>)
    /\ remote' = head
    /\ pc' = "returned"
    /\ UNCHANGED <<variant, runs, head, index, wt, wcExists, inputs, manifest,
                   gitDiffExitCode, hasChanges, attempt, now, wakeAt, error,
                   failed, outputs, prev>>
    /\ UNCHANGED <<renderVars, valuesVars, envVars, hostVars, parseVars, raceVars, pathVars>>

\* git.ts 246-252: the push fails and attempts remain: warn, then wait.
PushFailedRetry ==
    /\ pc = "push"
    /\ attempt <= maxRetries
    /\ RetryAllowed(attempt)
    /\ Log(<<Said("push", attempt + 1, 0, <<pushBranch>>), Event("push_fail", attempt + 1, 0),
             Said("warning_retry", attempt + 1, RetryDelay(attempt),
                  <<RetryWarning(attempt)>>),
             Event("sleep", attempt + 1, RetryDelay(attempt))>>)
    /\ wakeAt' = now + RetryDelay(attempt)
    /\ pc' = "sleeping"
    /\ UNCHANGED <<variant, runs, remote, head, index, wt, wcExists, inputs,
                   manifest, gitDiffExitCode, hasChanges, attempt, now, error,
                   failed, outputs, prev>>
    /\ UNCHANGED <<renderVars, valuesVars, envVars, hostVars, parseVars, raceVars, pathVars>>

\* git.ts 253-255: the push fails and no attempt remains: rethrow.
PushFailedFinal ==
    /\ pc = "push"
    /\ attempt <= maxRetries
    /\ ~RetryAllowed(attempt)
    /\ Log(<<Said("push", attempt + 1, 0, <<pushBranch>>), Event("push_fail", attempt + 1, 0)>>)
    /\ CommitAndPushThrow("The process 'git' failed with exit code 1")
    /\ UNCHANGED <<variant, runs, remote, head, index, wt, wcExists, inputs,
                   manifest, gitDiffExitCode, hasChanges, attempt, now, wakeAt,
                   failed, outputs, prev>>
    /\ UNCHANGED <<renderVars, valuesVars, envVars, hostVars, parseVars, raceVars, pathVars>>

\* Time passes while the routine is suspended on its timer.
Tick ==
    /\ pc = "sleeping"
    /\ now < wakeAt
    /\ now' = now + 2000
    /\ UNCHANGED <<pc, variant, runs, remote, head, index, wt, wcExists, inputs,
                   manifest, gitDiffExitCode, hasChanges, attempt, wakeAt,
                   trace, error, failed, outputs, prev>>
    /\ UNCHANGED <<renderVars, valuesVars, envVars, hostVars, parseVars, raceVars, pathVars>>

\* A promise that nothing resolves.
TimerElapsedNever == FALSE

\* git.ts 252: `await new Promise(resolve => setTimeout(resolve, delay))`:
\* the routine resumes once the delay has elapsed.
TimerElapsed == now >= wakeAt

\* A loop that brings the working copy up to date before it pushes again.
TimerFiresResync ==
    /\ pc = "sleeping"
    /\ TimerElapsed
    /\ Log(<<Event("wake", attempt + 1, 0), Event("fetch", 0, 0),
             Event("rebase", 0, 0)>>)
    /\ attempt' = attempt + 1
    /\ pc' = "push"
    /\ UNCHANGED <<variant, runs, remote, head, index, wt, wcExists, inputs,
                   manifest, gitDiffExitCode, hasChanges, now, wakeAt, error,
                   failed, outputs, prev>>
    /\ UNCHANGED <<renderVars, valuesVars, envVars, hostVars, parseVars, raceVars, pathVars>>

\* git.ts 252, 239: the timer fires, the loop goes to its next attempt.
TimerFires ==
    /\ pc = "sleeping"
    /\ TimerElapsed
    /\ Log(<<Event("wake", attempt + 1, 0)>>)
    /\ attempt' = attempt + 1
    /\ pc' = "push"
    /\ UNCHANGED <<variant, runs, remote, head, index, wt, wcExists, inputs,
                   manifest, gitDiffExitCode, hasChanges, now, wakeAt, error,
                   failed, outputs, prev>>
    /\ UNCHANGED <<renderVars, valuesVars, envVars, hostVars, parseVars, raceVars, pathVars>>

-----------------------------------------------------------------------------
(* The two ends of run, main.ts 125-148 *)

\* main.ts 125-130: commitAndPush returned: log and publish the time output.
RunSucceeded ==
    /\ pc = "returned"
    /\ variant = "current"
    /\ Log(<<Event("info_success", 0, 0), Event("setOutput", 0, 0)>>)
    /\ outputs' = outputs + 1
    /\ pc' = "done"
    /\ UNCHANGED <<variant, runs, remote, head, index, wt, wcExists, inputs,
                   manifest, gitDiffExitCode, hasChanges, attempt, now, wakeAt,
                   error, failed, prev>>
    /\ UNCHANGED <<renderVars, valuesVars, envVars, hostVars, parseVars, raceVars, pathVars>>

\* A handler whose report is lost when the cleanup fails (the cleanup not
\* guarded by a try of its own).
ReportedUnlessCleanupFails(err, cleanupOk) == IF cleanupOk THEN <<err>> ELSE <<>>

\* A handler in which a failed cleanup replaces the failure reason.
ReportedCleanupError(err, cleanupOk) ==
    IF cleanupOk THEN <<err>> ELSE <<"Failed to clean up directory">>

\* main.ts 147: what the handler reports as the failure, given the caught
\* error and whether the cleanup went through.
Reported(err, cleanupOk) == <<err>>

\* main.ts 131-148: the catch handler of run: remove the working copy
\* (a failing removal is only logged at debug level), then report the error.
RunCatch ==
    /\ pc = "catch"
    /\ \E cleanupOk \in BOOLEAN :
          /\ IF cleanupOk
             THEN /\ wcExists' = FALSE
                  /\ Log(<<Event("rmRF", 0, 0), Event("setFailed", 0, 0)>>)
             ELSE /\ UNCHANGED wcExists
                  /\ Log(<<Event("rmRF", 0, 0), Event("debug_cleanup", 0, 0),
                           Event("setFailed", 0, 0)>>)
          /\ failed' = failed \o Reported(error, cleanupOk)
    /\ pc' = "done"
    /\ UNCHANGED <<variant, runs, remote, head, index, wt, inputs, manifest,
                   gitDiffExitCode, hasChanges, attempt, now, wakeAt, error,
                   outputs, prev>>
    /\ UNCHANGED <<renderVars, valuesVars, envVars, hostVars, parseVars, raceVars, pathVars>>

\* How the invocation ended, from its error and its log.
Result ==
    IF error # "" THEN "failed"
    ELSE IF Count(trace, "push_ok") > 0 THEN "pushed"
    ELSE "nochanges"

\* The action is started again (a later workflow run): a new process, a new
\* working-copy directory, the same remote.
NextInvocation ==
    /\ pc = "done"
    /\ runs < MaxRuns
    /\ runs' = runs + 1
    /\ prev' = [inputs |-> inputs, result |-> Result]
    /\ pc' = "start"
    /\ head' = NoTree
    /\ index' = NoTree
    /\ wt' = NoTree
    /\ wcExists' = FALSE
    /\ inputs' = NoInputs
    /\ manifest' = 0
    /\ gitDiffExitCode' = -1
    /\ attempt' = 0
    /\ now' = 0
    /\ wakeAt' = 0
    /\ trace' = <<>>
    /\ error' = ""
    /\ failed' = <<>>
    /\ outputs' = 0
    /\ customValuesFile' = FALSE
    /\ helmTemplateExitCode' = -1
    /\ helmTemplateStderr' = ""
    /\ UNCHANGED <<variant, remote, hasChanges>>
    /\ UNCHANGED <<valuesVars, envVars, hostVars, parseVars, raceVars, pathVars>>

Next ==
    \/ GetInputs
    \/ PrepareWorkdir
    \/ CloneGitOpsRepo
    \/ GenerateValuesYaml
    \/ GenerateArgoCDAppManifest
    \/ PlaceArgoCDApp
    \/ CopyApplicationManifests
    \/ GitStatusAndTree
    \/ GitAdd
    \/ GitDiff
    \/ GitCommit
    \/ PushSucceeded
    \/ PushFailedRetry
    \/ PushFailedFinal
    \/ Tick
    \/ TimerFires
    \/ RunSucceeded
    \/ RunCatch
    \/ NextInvocation

Spec == Init /\ [][Next]_vars

-----------------------------------------------------------------------------
(* One invocation of run, in each of the surroundings *)

InitRun ==
    /\ RunStart
    /\ env \in Envs

NextRun ==
    \/ GetInputs
    \/ PrepareWorkdir
    \/ CloneGitOpsRepo
    \/ GenerateValuesYaml
    \/ GenerateArgoCDAppManifest
    \/ PlaceArgoCDApp
    \/ CopyApplicationManifests
    \/ GitStatusAndTree
    \/ GitAdd
    \/ GitDiff
    \/ GitCommit
    \/ PushSucceeded
    \/ PushFailedRetry
    \/ PushFailedFinal
    \/ Tick
    \/ TimerFires
    \/ RunSucceeded
    \/ RunCatch

SpecRun == InitRun /\ [][NextRun]_vars

-----------------------------------------------------------------------------
(* The compiled variant of commitAndPush, dist/utils/git.js 82-173 *)

\* Working copies the compiled routine is called on: a fresh clone, or one
\* whose last commit already holds a pointer manifest.
CompiledClones == {InitialRemote, Put(InitialRemote, argocdManifestPath, 1)}

InitCompiled ==
    /\ pc = "c_place"
    /\ variant = "compiled"
    /\ runs = 1
    /\ remote \in CompiledClones
    /\ head = remote
    /\ index = remote
    /\ wt = remote
    /\ wcExists = TRUE
    /\ inputs \in ValidInputs
    /\ manifest = RenderOutput(inputs.customValues)
    /\ gitDiffExitCode = -1
    /\ hasChanges = FALSE
    /\ attempt = 0
    /\ now = 0
    /\ wakeAt = 0
    /\ trace = <<>>
    /\ error = ""
    /\ failed = <<>>
    /\ outputs = 0
    /\ prev = NoPrev
    /\ RenderIdle
    /\ ValuesIdle
    /\ env = DefaultEnv
    /\ HostIdle
    /\ ParseIdle
    /\ RaceIdle
    /\ PathsIdle

\* git.js 84-114: create <applicationName>/<environment>, write the manifest
\* as application.yaml, copy the local manifests beside it.
CompiledPlace ==
    /\ pc = "c_place"
    /\ \E ok \in BOOLEAN :
          IF ~ok
          THEN /\ CommitAndPushThrow("cp failed")
               /\ Log(<<Event("mkdirP", 0, 0)>>)
               /\ UNCHANGED wt
          ELSE IF SourceExists(inputs)
          THEN /\ wt' = CopyEntries(Put(wt, argocdManifestPath, manifest),
                                    inputs.src, Entries(inputs.src), targetDir)
               /\ Log(<<Event("mkdirP", 0, 0), Event("writeFile", 0, manifest),
                        Event("readdir", 0, 0)>>
                         \o CopyEvents(inputs.src, Entries(inputs.src)))
               /\ pc' = "c_add"
               /\ UNCHANGED error
          ELSE /\ wt' = Put(wt, argocdManifestPath, manifest)
               /\ Log(<<Event("mkdirP", 0, 0), Event("writeFile", 0, manifest),
                        Event("warning_missing", 0, 0)>>)
               /\ pc' = "c_add"
               /\ UNCHANGED error
    /\ UNCHANGED <<variant, runs, remote, head, index, wcExists, inputs,
                   manifest, gitDiffExitCode, hasChanges, attempt, now, wakeAt,
                   failed, outputs, prev>>
    /\ UNCHANGED <<renderVars, valuesVars, envVars, hostVars, parseVars, raceVars, pathVars>>

\* git.js 116: `git add .`
CompiledAdd ==
    /\ pc = "c_add"
    /\ \E ok \in BOOLEAN :
          IF ok
          THEN /\ index' = wt
               /\ pc' = "c_diff"
               /\ UNCHANGED error
          ELSE /\ CommitAndPushThrow("The process 'git' failed with exit code 128")
               /\ UNCHANGED index
    /\ Log(<<Event(AddOp("."), 0, 0)>>)
    /\ UNCHANGED <<variant, runs, remote, head, wt, wcExists, inputs, manifest,
                   gitDiffExitCode, hasChanges, attempt, now, wakeAt, failed,
                   outputs, prev>>
    /\ UNCHANGED <<renderVars, valuesVars, envVars, hostVars, parseVars, raceVars, pathVars>>

\* git.js 129-133: the flag is cleared when the diff call resolves and set
\* when it rejects.
CompiledHasChanges(resolved) == ~resolved

\* git.js 117-137: the change check of the compiled variant, run with
\* ignoreReturnCode set and decided by resolve/reject.
CompiledDiff ==
    /\ pc = "c_diff"
    /\ \E started \in BOOLEAN, code \in DiffExitCodes(index, head) :
          LET resolved == ExecResolves(started, code, TRUE)
              changes  == CompiledHasChanges(resolved)
          IN  /\ hasChanges' = changes
              /\ IF changes
                 THEN /\ Log(<<Event("diff", 0, IF started THEN code ELSE -1)>>)
                      /\ pc' = "commit"
                 ELSE /\ Log(<<Event("diff", 0, IF started THEN code ELSE -1),
                               Event("info_nochanges", 0, 0)>>)
                      /\ pc' = "returned"
    /\ UNCHANGED <<variant, runs, remote, head, index, wt, wcExists, inputs,
                   manifest, gitDiffExitCode, attempt, now, wakeAt, error,
                   failed, outputs, prev>>
    /\ UNCHANGED <<renderVars, valuesVars, envVars, hostVars, parseVars, raceVars, pathVars>>

NextCompiled ==
    \/ CompiledPlace
    \/ CompiledAdd
    \/ CompiledDiff
    \/ GitCommit
    \/ PushSucceeded
    \/ PushFailedRetry
    \/ PushFailedFinal
    \/ Tick
    \/ TimerFires

SpecCompiled == InitCompiled /\ [][NextCompiled]_vars

-----------------------------------------------------------------------------
(* generateValuesYaml followed on its own *)

\* run at rest while generateValuesYaml is followed.
RunIdle ==
    /\ pc = "idle"
    /\ variant = "current"
    /\ runs = 1
    /\ remote = InitialRemote
    /\ head = NoTree
    /\ index = NoTree
    /\ wt = NoTree
    /\ wcExists = FALSE
    /\ inputs = NoInputs
    /\ manifest = 0
    /\ gitDiffExitCode = -1
    /\ hasChanges = FALSE
    /\ attempt = 0
    /\ now = 0
    /\ wakeAt = 0
    /\ trace = <<>>
    /\ error = ""
    /\ failed = <<>>
    /\ outputs = 0
    /\ prev = NoPrev

runVars == <<pc, variant, runs, remote, head, index, wt, wcExists, inputs,
             manifest, gitDiffExitCode, hasChanges, attempt, now, wakeAt, trace,
             error, failed, outputs, prev>>

InitValues ==
    /\ RunIdle
    /\ RenderIdle
    /\ env = DefaultEnv
    /\ HostIdle
    /\ ParseIdle
    /\ RaceIdle
    /\ PathsIdle
    /\ gvpc = "gv_start"
    /\ args \in ValuesArgs
    /\ defaultValues = Absent
    /\ valuesYaml = <<>>
    /\ valuesError = ""

\* argocd-app-manifest.ts 44-56: build defaultValues from the arguments.
ComposeDefaultValues ==
    /\ gvpc = "gv_start"
    /\ defaultValues' = DefaultValues(args)
    /\ gvpc' = "gv_defaults"
    /\ UNCHANGED <<args, valuesYaml, valuesError, runVars, renderVars,
                   envVars, hostVars, parseVars, raceVars, pathVars>>

\* argocd-app-manifest.ts 59-61: no custom values: the defaults, dumped.
ReturnDefaultValues ==
    /\ gvpc = "gv_defaults"
    /\ args.customValues = <<>>
    /\ valuesYaml' = Dump(defaultValues)
    /\ gvpc' = "gv_returned"
    /\ UNCHANGED <<args, defaultValues, valuesError, runVars, renderVars,
                   envVars, hostVars, parseVars, raceVars, pathVars>>

\* argocd-app-manifest.ts 64-72: parse the custom values, merge them into
\* defaultValues, dump the result; an exception on the way is wrapped.
MergeCustomValues ==
    /\ gvpc = "gv_defaults"
    /\ args.customValues # <<>>
    /\ LET customValuesYaml == Load(args.customValues)
           mergedValues     == Merge(defaultValues, customValuesYaml)
       IN  IF customValuesYaml = ParseError
           THEN /\ valuesError' = "Invalid custom values YAML: " \o "YAMLException"
                /\ gvpc' = "gv_threw"
                /\ UNCHANGED <<defaultValues, valuesYaml>>
           ELSE /\ defaultValues' = mergedValues
                /\ valuesYaml' = Dump(mergedValues)
                /\ gvpc' = "gv_returned"
                /\ UNCHANGED valuesError
    /\ UNCHANGED <<args, runVars, renderVars,
                   envVars, hostVars, parseVars, raceVars, pathVars>>

NextValues ==
    \/ ComposeDefaultValues
    \/ ReturnDefaultValues
    \/ MergeCustomValues

SpecValues == InitValues /\ [][NextValues]_vars

-----------------------------------------------------------------------------
(* commitAndPush called on its own, as __tests__/commitAndPush.test.js does *)

\* The branch arguments of the call ("": none), on a working copy of a
\* repository that has the branches main and release.
DirectEnvs ==
    [ token : {"ghs_A"}, branch : {"", "main", "release"},
      defaultBranch : {"main"}, otherBranches : {{"release"}} ]

\* The branch the working copy was cloned from: as before a first
\* invocation, or holding manifests of an earlier deployment in the target
\* directory (a file and a directory).
DirectRemotes ==
    InitialRemotes
      \cup {Put(Put(InitialRemote, Join(appManifestsTargetDir, "old.yaml"), 1),
                 appManifestsTargetDir \o <<"d", "g">>, 2)}

InitDirect ==
    /\ pc = "place"
    /\ variant = "direct"
    /\ runs = 1
    /\ remote \in DirectRemotes
    /\ head = remote
    /\ index = remote
    /\ wt = remote
    /\ wcExists = TRUE
    /\ inputs \in ValidInputs
    /\ manifest = RenderOutput(inputs.customValues)
    /\ gitDiffExitCode = -1
    /\ hasChanges = FALSE
    /\ attempt = 0
    /\ now = 0
    /\ wakeAt = 0
    /\ trace = <<>>
    /\ error = ""
    /\ failed = <<>>
    /\ outputs = 0
    /\ prev = NoPrev
    /\ RenderIdle
    /\ ValuesIdle
    /\ HostIdle
    /\ ParseIdle
    /\ RaceIdle
    /\ PathsIdle
    /\ env \in DirectEnvs

NextDirect ==
    \/ PlaceArgoCDApp
    \/ CopyApplicationManifests
    \/ GitStatusAndTree
    \/ GitAdd
    \/ GitDiff
    \/ GitCommit
    \/ PushSucceeded
    \/ PushFailedRetry
    \/ PushFailedFinal
    \/ Tick
    \/ TimerFires

SpecDirect == InitDirect /\ [][NextDirect]_vars

\* The same call, when every command, file operation and timer the routine
\* waits for comes back: a step that can be taken is taken.
SpecDirectFair == SpecDirect /\ WF_vars(NextDirect)

-----------------------------------------------------------------------------
(* Invocations of run side by side on one host, main.ts 76-90 and 131-148 *)

\* The invocations on the host (two workflow jobs of one self-hosted runner
\* machine, say).
Invocations == {1, 2}

\* main.ts 79: path.join(os.tmpdir(), `gitops-repo-${Date.now()}`), as a
\* name inside the temporary directory.
WorkdirName(dateNow) == "gitops-repo-" \o ToString(dateNow)

\* The invocation has its path and has not ended.
Live(p) == proc[p].pc \notin {"start", "done"}

Without(t, d) == [x \in (DOMAIN t) \ {d} |-> t[x]]

InitHost ==
    /\ RunIdle
    /\ RenderIdle
    /\ ValuesIdle
    /\ ParseIdle
    /\ RaceIdle
    /\ PathsIdle
    /\ env = DefaultEnv
    /\ hostNow = 0
    /\ proc = [p \in Invocations |-> [pc |-> "start", path |-> ""]]
    /\ tmp = <<>>

hostIdleVars == <<runVars, renderVars, valuesVars, envVars, parseVars, raceVars, pathVars>>

\* The host's clock advances.
HostTick ==
    /\ hostNow < MaxClock
    /\ hostNow' = hostNow + 1
    /\ UNCHANGED <<proc, tmp, hostIdleVars>>

\* main.ts 79: the invocation names its working-copy directory after the
\* current time.
HostPath(p) ==
    /\ proc[p].pc = "start"
    /\ proc' = [proc EXCEPT ![p] = [pc |-> "rmRF", path |-> WorkdirName(hostNow)]]
    /\ UNCHANGED <<hostNow, tmp, hostIdleVars>>

\* main.ts 80: io.rmRF removes whatever is at the path.
HostRmRF(p) ==
    /\ proc[p].pc = "rmRF"
    /\ tmp' = Without(tmp, proc[p].path)
    /\ proc' = [proc EXCEPT ![p].pc = "mkdirP"]
    /\ UNCHANGED <<hostNow, hostIdleVars>>

\* main.ts 81: io.mkdirP creates the directory unless it is there.
HostMkdirP(p) ==
    /\ proc[p].pc = "mkdirP"
    /\ tmp' = IF proc[p].path \in DOMAIN tmp THEN tmp
              ELSE (proc[p].path :> {}) @@ tmp
    /\ proc' = [proc EXCEPT ![p].pc = "clone"]
    /\ UNCHANGED <<hostNow, hostIdleVars>>

\* main.ts 84-90: git clone into the directory; git refuses a directory
\* that is missing its parent or is not empty, and can fail for reasons of
\* its own.
HostClone(p) ==
    /\ proc[p].pc = "clone"
    /\ \E ok \in BOOLEAN :
          IF ok /\ proc[p].path \in DOMAIN tmp /\ tmp[proc[p].path] = {}
          THEN /\ tmp' = [tmp EXCEPT ![proc[p].path] = {p}]
               /\ proc' = [proc EXCEPT ![p].pc = "work"]
          ELSE /\ proc' = [proc EXCEPT ![p].pc = "catch"]
               /\ UNCHANGED tmp
    /\ UNCHANGED <<hostNow, hostIdleVars>>

\* main.ts 92-130: values, render, commitAndPush in the working copy: the
\* invocation ends (its directory stays), or an error goes to the handler.
HostWork(p) ==
    /\ proc[p].pc = "work"
    /\ \E ok \in BOOLEAN :
          IF ok /\ proc[p].path \in DOMAIN tmp /\ p \in tmp[proc[p].path]
          THEN proc' = [proc EXCEPT ![p].pc = "done"]
          ELSE proc' = [proc EXCEPT ![p].pc = "catch"]
    /\ UNCHANGED <<hostNow, tmp, hostIdleVars>>

\* main.ts 131-148: the handler removes the directory at the path.
HostCatch(p) ==
    /\ proc[p].pc = "catch"
    /\ \E cleanupOk \in BOOLEAN :
          tmp' = IF cleanupOk THEN Without(tmp, proc[p].path) ELSE tmp
    /\ proc' = [proc EXCEPT ![p].pc = "done"]
    /\ UNCHANGED <<hostNow, hostIdleVars>>

NextHost ==
    \/ HostTick
    \/ \E p \in Invocations : HostPath(p)
    \/ \E p \in Invocations : HostRmRF(p)
    \/ \E p \in Invocations : HostMkdirP(p)
    \/ \E p \in Invocations : HostClone(p)
    \/ \E p \in Invocations : HostWork(p)
    \/ \E p \in Invocations : HostCatch(p)

SpecHost == InitHost /\ [][NextHost]_vars

-----------------------------------------------------------------------------
(* parseRepositoryInfo, git.ts 15-36, followed on its own *)
(* Strings are sequences of characters here, so that they can be searched  *)
(* and split.                                                              *)

Characters == {"o", "r", "/"}

\* The strings of at most n characters.
RECURSIVE StringsUpTo(_)
StringsUpTo(n) ==
    IF n = 0 THEN {<<>>}
    ELSE LET shorter == StringsUpTo(n - 1)
         IN  shorter \cup {Append(x, c) : x \in shorter, c \in Characters}

\* String.prototype.includes
Includes(str, c) == \E k \in 1..Len(str) : str[k] = c

\* String.prototype.split: the pieces of str between the occurrences of c
\* (one piece more than there are occurrences).
RECURSIVE Split(_, _)
Split(str, c) ==
    IF ~Includes(str, c) THEN <<str>>
    ELSE LET k == CHOOSE i \in 1..Len(str) :
                      str[i] = c /\ \A j \in 1..(i - 1) : str[j] # c
         IN  <<SubSeq(str, 1, k - 1)>> \o Split(SubSeq(str, k + 1, Len(str)), c)

\* A parser that takes the organisation from the context in every case.
ParseRepositoryInfoContextOwner(repo, owner) ==
    [gitopsOrg |-> owner, gitopsRepoName |-> repo]

\* git.ts 19-35: with a slash, the first two pieces of the split; without,
\* the context's owner and the string itself.
ParseRepositoryInfo(repo, owner) ==
    IF Includes(repo, "/")
    THEN LET parts == Split(repo, "/")
         IN  [gitopsOrg |-> parts[1], gitopsRepoName |-> parts[2]]
    ELSE [gitopsOrg |-> owner, gitopsRepoName |-> repo]

InitParse ==
    /\ RunIdle
    /\ RenderIdle
    /\ ValuesIdle
    /\ HostIdle
    /\ RaceIdle
    /\ PathsIdle
    /\ env = DefaultEnv
    /\ ppc = "called"
    /\ repository \in StringsUpTo(MaxRepositoryLen)
    /\ contextOwner \in {<<"o">>, <<"r", "o">>}
    /\ parsed = NoParse

\* git.ts 15-36: the call returns.
ParseReturns ==
    /\ ppc = "called"
    /\ parsed' = ParseRepositoryInfo(repository, contextOwner)
    /\ ppc' = "returned"
    /\ UNCHANGED <<repository, contextOwner, runVars, renderVars, valuesVars,
                   envVars, hostVars, raceVars, pathVars>>

NextParse == ParseReturns

SpecParse == InitParse /\ [][NextParse]_vars

-----------------------------------------------------------------------------
(* Two invocations and one remote branch, git.ts 48-83 and 208-257 *)
(* A commit is what git makes its name from: its parents, its tree, its    *)
(* message, the identity and the second it was made at.  cloneGitOpsRepo   *)
(* configures the same identity in every working copy (git.ts 71-76), so   *)
(* the identity is left out.                                               *)

\* The commit at the tip of the branch before either invocation.
RootCommit == [parents |-> <<>>, tree |-> 1, message |-> "init", at |-> 0]

\* What the staged tree of an invocation can be after placement: the tree
\* of the root commit, or one of two deployments.
DeployTrees == {1, 2, 3}

\* The seconds at which the commits are made.
CommitSeconds == {0, 1}

\* git.ts 224-228: the first line of the commit message.
commitMessage == "Deploy " \o applicationName \o " to " \o environment

\* The commit and everything it was built on.
RECURSIVE History(_)
History(c) ==
    IF c.parents = <<>> THEN {c} ELSE {c} \cup History(c.parents[1])

\* A push that overwrites whatever the branch holds (--force).
PushAcceptsForced(tip, c) == TRUE

\* git.ts 241: `git push -u origin <branch>`, without --force, to a remote
\* that takes fast-forwards only: the push goes through when the branch's
\* tip is part of the pushed commit's history (the tip itself included:
\* there is nothing to update then).
PushAccepts(tip, c) == tip \in History(c)

InitRace ==
    /\ RunIdle
    /\ RenderIdle
    /\ ValuesIdle
    /\ HostIdle
    /\ ParseIdle
    /\ PathsIdle
    /\ env = DefaultEnv
    /\ origin = RootCommit
    /\ job = [p \in Invocations |->
                [pc |-> "clone", base |-> NoCommit, tree |-> 0,
                 commit |-> NoCommit, attempt |-> 0, pushes |-> 0,
                 accepted |-> FALSE]]

raceIdleVars ==
    <<runVars, renderVars, valuesVars, envVars, hostVars, parseVars, pathVars>>

\* git.ts 58-68 and 122-206: the invocation clones the branch at its tip,
\* places its manifests and stages them.
RaceClone(p) ==
    /\ job[p].pc = "clone"
    /\ \E t \in DeployTrees :
          job' = [job EXCEPT ![p].base = origin, ![p].tree = t, ![p].pc = "diff"]
    /\ UNCHANGED <<origin, raceIdleVars>>

\* git.ts 208-232: the change check, and the commit on top of the clone when
\* the staged tree differs.
RaceCommit(p) ==
    /\ job[p].pc = "diff"
    /\ IF NoChanges(DiffExit(job[p].tree, job[p].base.tree))
       THEN job' = [job EXCEPT ![p].pc = "returned"]
       ELSE \E at \in CommitSeconds :
               job' = [job EXCEPT
                         ![p].commit = [parents |-> <<job[p].base>>,
                                        tree |-> job[p].tree,
                                        message |-> commitMessage,
                                        at |-> at],
                         ![p].pc = "push"]
    /\ UNCHANGED <<origin, raceIdleVars>>

\* git.ts 239-256: one attempt of the loop.  The push fails when it does not
\* reach the remote or the remote rejects it; the branch moves when it goes
\* through.
RacePush(p) ==
    /\ job[p].pc = "push"
    /\ job[p].attempt <= maxRetries
    /\ \E reaches \in BOOLEAN :
          IF reaches /\ PushAccepts(origin, job[p].commit)
          THEN /\ origin' = job[p].commit
               /\ job' = [job EXCEPT ![p].pushes = @ + 1, ![p].accepted = TRUE,
                                     ![p].pc = "returned"]
          ELSE /\ UNCHANGED origin
               /\ job' = [job EXCEPT ![p].pushes = @ + 1,
                                     ![p].pc = IF RetryAllowed(job[p].attempt)
                                               THEN "sleeping" ELSE "threw"]
    /\ UNCHANGED raceIdleVars

\* git.ts 252, 239: the delay is over, the loop goes to its next attempt with
\* the commit it has.
RaceTimerFires(p) ==
    /\ job[p].pc = "sleeping"
    /\ job' = [job EXCEPT ![p].attempt = @ + 1, ![p].pc = "push"]
    /\ UNCHANGED <<origin, raceIdleVars>>

NextRace ==
    \/ \E p \in Invocations : RaceClone(p)
    \/ \E p \in Invocations : RaceCommit(p)
    \/ \E p \in Invocations : RacePush(p)
    \/ \E p \in Invocations : RaceTimerFires(p)

SpecRace == InitRace /\ [][NextRace]_vars

-----------------------------------------------------------------------------
(* The paths of commitAndPush and of generateValuesYaml, for one set of    *)
(* arguments: git.ts 119-172, 199-206 and argocd-app-manifest.ts 44-56     *)

\* main.ts 79: the directory of the working copy, an absolute path.
gitopsRepoLocalPath == PathOf(TRUE, <<"tmp", "gitops-repo">>, FALSE)

\* The arguments followed: gitopsPath './', 'gitops/', '/gitops' or '../x';
\* applicationManifestsPath './', 'k8s', '../k8s', '../../k8s' or '/abs/k8s'.
PathArgs ==
    [ applicationName : {applicationName, "2024"},
      environment : {environment},
      sourceRepo : {"gitops"},
      sourceOrg : {"org"},
      sourceBranch : {"main"},
      gitopsPath : {PathOf(FALSE, <<".">>, TRUE), PathOf(FALSE, <<"gitops">>, TRUE),
                    PathOf(TRUE, <<"gitops">>, FALSE),
                    PathOf(FALSE, <<"..", "x">>, FALSE)},
      customValues : {<<>>},
      applicationManifestsPath :
          {PathOf(FALSE, <<".">>, TRUE), PathOf(FALSE, <<"k8s">>, FALSE),
           PathOf(FALSE, <<"..", "k8s">>, FALSE),
           PathOf(FALSE, <<"..", "..", "k8s">>, FALSE),
           PathOf(TRUE, <<"abs", "k8s">>, FALSE)} ]

\* The local manifests directory holds one file.
manifestFile == "deployment.yaml"

InitPaths ==
    /\ RunIdle
    /\ RenderIdle
    /\ HostIdle
    /\ ParseIdle
    /\ RaceIdle
    /\ env = DefaultEnv
    /\ gvpc = "gv_start"
    /\ args \in PathArgs
    /\ defaultValues = Absent
    /\ valuesYaml = <<>>
    /\ valuesError = ""
    /\ targets = NoTargets

\* git.ts 119-172 and 199-206, for the arguments in args: compute the
\* target paths, write the pointer manifest and the file of the local
\* directory (wt: the files written, by their absolute paths), then
\* `git add ./argocd-apps` and `git add ./<applicationName>` with
\* gitopsBasePath as the working directory (index: the files staged).
PlaceAndStage ==
    /\ pc = "idle"
    /\ LET base    == PathJoin(<<gitopsRepoLocalPath, args.gitopsPath>>)
           dir     == PathJoin(<<base, Name(gitopsArgoAppsPrefix),
                                 Name(args.applicationName)>>)
           file    == PathJoin(<<dir, Name(args.environment \o ".yaml")>>)
           mdir    == PathJoin(<<base, Name(args.applicationName),
                                 Name(args.environment),
                                 args.applicationManifestsPath>>)
           dest    == PathJoin(<<mdir, Name(manifestFile)>>)
           written == (file.segs :> 1) @@ (dest.segs :> 1)
           add1    == PathJoin(<<base, PathOf(FALSE, <<".", gitopsArgoAppsPrefix>>, FALSE)>>)
           add2    == PathJoin(<<base, PathOf(FALSE, <<".", args.applicationName>>, FALSE)>>)
       IN  /\ targets' = [ gitopsBasePath |-> base,
                           argocdAppTargetFile |-> file,
                           appManifestsTargetDir |-> mdir ]
           /\ wt' = written
           /\ index' = Stage(Stage(NoTree, written, add1.segs), written, add2.segs)
    /\ pc' = "placed"
    /\ UNCHANGED <<variant, runs, remote, head, wcExists, inputs, manifest,
                   gitDiffExitCode, hasChanges, attempt, now, wakeAt, trace,
                   error, failed, outputs, prev>>
    /\ UNCHANGED <<renderVars, valuesVars, envVars, hostVars, parseVars, raceVars>>

NextPaths ==
    \/ ComposeDefaultValues
    \/ PlaceAndStage

SpecPaths == InitPaths /\ [][NextPaths]_vars

-----------------------------------------------------------------------------
(* Claims *)

PushOps == {"push", "push_ok", "push_fail", "warning_retry", "sleep", "wake"}

Finished == pc \in {"returned", "catch", "done", "threw"}

\* C1: when every push attempt fails, exactly 5 attempts are made (1 initial
\* + 4 retries): never more than 5 pushes are issued, the operation does not
\* fail or end while fewer than 5 failed attempts have been made, and when it
\* fails on the push all 5 attempts have been made and have failed.
C1_ExactlyFiveAttempts ==
    /\ Count(trace, "push") <= 5
    /\ (Count(trace, "push") > 0 /\ Count(trace, "push_ok") = 0
          /\ Count(trace, "push") < 5)
         => (pc \in {"push", "sleeping"} /\ error = "")
    /\ (Finished /\ Count(trace, "push") > 0 /\ Count(trace, "push_ok") = 0)
         => /\ Count(trace, "push") = 5
            /\ Count(trace, "push_fail") = 5
            /\ error # ""

\* C1 witness: an invocation ended after five failed pushes.
C1_Witness ==
    pc = "done" /\ Count(trace, "push_fail") = 5 /\ error # ""

\* C2: for every k in 0..4, if the first k pushes fail and push k+1 succeeds,
\* exactly k+1 pushes are made, no error is raised, and no push, delay or
\* warning follows the successful push.
C2_SuccessEndsRetries ==
    \A i \in Positions(trace, "push_ok") :
        LET k == trace[i].n - 1
            before == SubSeq(trace, 1, i)
        IN  /\ k \in 0..4
            /\ Count(before, "push_fail") = k
            /\ Count(trace, "push") = k + 1
            /\ \A j \in (i + 1)..Len(trace) : trace[j].op \notin PushOps
            /\ error = ""
            /\ failed = <<>>
            /\ pc \in {"returned", "done"}

\* C2 witness: four failed pushes, then an accepted fifth, and the run is over.
C2_Witness ==
    /\ pc = "done"
    /\ Count(trace, "push_fail") = 4
    /\ \E i \in Positions(trace, "push_ok") : trace[i].n = 5

\* C3: the delays between consecutive pushes are 2 s, 4 s, 8 s, 16 s in that
\* order: the n-th delay is set after push n has failed, push n+1 starts only
\* once that delay has fully elapsed, and no delay follows the fifth push.
C3_DelaySchedule ==
    LET schedule == <<2000, 4000, 8000, 16000>>
    IN  /\ \A i \in Positions(trace, "sleep") :
              /\ trace[i].n \in 1..4
              /\ trace[i].arg = schedule[trace[i].n]
              /\ \E j \in 1..(i - 1) :
                    /\ trace[j].op = "push_fail"
                    /\ trace[j].n = trace[i].n
                    /\ trace[j].t <= trace[i].t
              /\ Count(SubSeq(trace, 1, i), "sleep") = trace[i].n
        /\ \A i \in Positions(trace, "push") :
              trace[i].n > 1 =>
                 \E j \in 1..(i - 1) :
                    /\ trace[j].op = "sleep"
                    /\ trace[j].n = trace[i].n - 1
                    /\ trace[i].t >= trace[j].t + schedule[trace[j].n]
        /\ Count(trace, "sleep") <= 4
        /\ Count(trace, "sleep") \in {Count(trace, "push"), Count(trace, "push") - 1}
        /\ Count(trace, "push") = 5 => Count(trace, "sleep") = 4

\* C3 witness: the fifth push has been made, 30 s after the first.
C3_Witness ==
    \E i \in Positions(trace, "push") : trace[i].n = 5 /\ trace[i].t = 30000

\* C4: when the change check exits 0, no commit and no push is ever issued,
\* 'No changes to commit' is logged and the operation returns without error.
C4_NoChangesNoCommit ==
    gitDiffExitCode = 0 =>
        /\ Count(trace, "commit") = 0
        /\ Count(trace, "push") = 0
        /\ Count(trace, "info_nochanges") = 1
        /\ error = ""
        /\ failed = <<>>
        /\ pc \in {"returned", "done"}

\* C4 witness: an invocation that ended after a change check exiting 0.
C4_Witness == pc = "done" /\ gitDiffExitCode = 0 /\ outputs = 1

\* C5: when the change check exits 1, exactly one commit command is issued
\* and, once it has gone through, a push is attempted; no push is ever made
\* before the commit, and there is never a second commit.
C5_CommitThenPush ==
    /\ Count(trace, "commit") <= 1
    /\ (gitDiffExitCode = 1 /\ pc # "commit") => Count(trace, "commit") = 1
    /\ \A i \in Positions(trace, "push") :
          \E j \in 1..(i - 1) : trace[j].op = "commit_ok"
    /\ (gitDiffExitCode = 1 /\ Count(trace, "commit_ok") = 1 /\ Finished)
          => Count(trace, "push") >= 1

\* C5 witness: a change check exiting 1, one commit, one accepted push.
C5_Witness ==
    /\ pc = "done"
    /\ gitDiffExitCode = 1
    /\ Count(trace, "commit") = 1
    /\ Count(trace, "push_ok") = 1

\* C6: in the compiled variant a change check that completes with exit code 1
\* leads to a commit and a push, as in the current variant.
C6_CompiledCommitsOnExitOne ==
    (variant = "compiled" /\ pc = "returned"
       /\ \E i \in Positions(trace, "diff") : trace[i].arg = 1)
      => (Count(trace, "commit") = 1 /\ Count(trace, "push_ok") = 1)

\* C7: on every exit path of run the working-copy directory of the
\* invocation has been removed by the time run completes.
C7_WorkingCopyRemoved == pc = "done" => ~wcExists

\* C8: when a stage of run fails with error E, run reports exactly one
\* failure message, E's, whether the cleanup in the handler succeeds or
\* fails; nothing is reported when no stage failed.
C8_OneFailureMessage ==
    /\ Len(failed) <= 1
    /\ (pc = "done" /\ error # "") => (failed = <<error>> /\ outputs = 0)
    /\ error = "" => failed = <<>>

\* C8 witness: a failed invocation whose cleanup failed as well.
C8_Witness ==
    /\ pc = "done"
    /\ error # ""
    /\ Count(trace, "debug_cleanup") = 1
    /\ wcExists

\* C9: a second invocation with the inputs of the first, on a working copy
\* whose last commit holds the first one's output, finds no changes: it
\* creates no commit and issues no push.
C9_SecondRunNoChanges ==
    (runs >= 2 /\ prev.result \in {"pushed", "nochanges"}
       /\ inputs = prev.inputs /\ gitDiffExitCode \in {0, 1})
      => /\ gitDiffExitCode = 0
         /\ Count(trace, "commit") = 0
         /\ Count(trace, "push") = 0

\* C10: when applicationManifestsPath does not exist, the copy step reads no
\* directory and copies nothing, warns once, leaves the pointer manifest
\* written, and the missing path is never the reason commitAndPush fails;
\* what is pushed then holds the pointer manifest.
C10_MissingManifestsPathNonFatal ==
    ~inputs.srcExists =>
        /\ Count(trace, "cp_entry") = 0
        /\ Count(trace, "readdir") = 0
        /\ pc \in {"status", "add", "diff", "commit", "push", "sleeping", "returned"}
              => /\ Count(trace, "warning_missing") = 1
                 /\ argocdAppTargetFile \in DOMAIN wt
                 /\ wt[argocdAppTargetFile] = manifest
        /\ error # "Failed to commit and push changes: ENOENT: no such file or directory, scandir"
        /\ Count(trace, "push_ok") = 1
              => /\ argocdAppTargetFile \in DOMAIN remote
                 /\ remote[argocdAppTargetFile] = manifest

\* C10 witness: the local directory is missing, the warning was logged, and
\* the pointer manifest was committed and pushed.
C10_Witness ==
    /\ pc = "done"
    /\ ~inputs.srcExists
    /\ Count(trace, "warning_missing") = 1
    /\ Count(trace, "commit_ok") = 1
    /\ Count(trace, "push_ok") = 1
    /\ error = ""

\* The paths the README documents for the pushed layout (README.md 250-260,
\* 276-300), relative to <gitops-path>.
applicationSetsFile ==
    <<"application-sets", applicationName \o "-" \o environment \o ".yaml">>

applicationsDir == <<"applications", applicationName, environment>>

\* The files placement has written: what differs from the cloned commit.
Written == {q \in DOMAIN wt : q \notin DOMAIN head \/ wt[q] # head[q]}

\* C11: when placement completes, the pointer manifest is at
\* argocd-apps/<applicationName>/<environment>.yaml, every file of every
\* direct entry of the local manifests directory is at
\* <applicationName>/<environment>/<applicationManifestsPath>/<entry name>
\* (below it, for a directory), and nothing was written anywhere else.
C11_PlacementPaths ==
    (variant = "current" /\ pc = "status") =>
        /\ argocdAppTargetFile \in DOMAIN wt
        /\ wt[argocdAppTargetFile] = manifest
        /\ inputs.srcExists =>
              \A q \in DOMAIN inputs.src :
                  /\ (appManifestsTargetDir \o q) \in DOMAIN wt
                  /\ wt[appManifestsTargetDir \o q] = inputs.src[q]
        /\ Written \subseteq
              ({argocdAppTargetFile}
                 \cup {appManifestsTargetDir \o q : q \in DOMAIN inputs.src})

\* C12: after a successful run the remote holds the deployment manifest at
\* application-sets/<applicationName>-<environment>.yaml and the application
\* manifests under applications/<applicationName>/<environment>/, the layout
\* the README documents.
C12_DocumentedLayout ==
    (pc = "done" /\ Result = "pushed") =>
        /\ applicationSetsFile \in DOMAIN remote
        /\ remote[applicationSetsFile] = manifest
        /\ inputs.srcExists =>
              \A q \in DOMAIN inputs.src :
                  /\ (applicationsDir \o q) \in DOMAIN remote
                  /\ remote[applicationsDir \o q] = inputs.src[q]

\* The two directories the routine stages.
StagedDirs == {<<gitopsArgoAppsPrefix>>, <<applicationName>>}

HandlerOps == {"rmRF", "debug_cleanup", "setFailed"}

\* C14: when a required input (gitops-repository with no GITOPS_REPOSITORY
\* fallback, gitops-token, environment) is missing, run fails with a message
\* naming that input, and creates no working copy, clones nothing, composes
\* no values, renders nothing, places, commits and pushes nothing.
C14_MissingInputFailsEarly ==
    \A i \in 1..Len(trace) :
        (trace[i].op \in {"getInput gitops-repository", "getInput gitops-token",
                          "getInput environment"}
           /\ trace[i].arg = 0)
        => /\ pc \in {"catch", "done"}
           /\ error =
                 (CASE trace[i].op = "getInput gitops-repository" ->
                         "gitops-repository input or GITOPS_REPOSITORY environment variable must be provided"
                    [] trace[i].op = "getInput gitops-token" ->
                         "Input required and not supplied: gitops-token"
                    [] OTHER ->
                         "Input required and not supplied: environment")
           /\ pc = "done" => (failed = <<error>> /\ outputs = 0)
           /\ \A j \in 1..(i - 1) :
                 trace[j].op \in {"getInput gitops-repository",
                                  "getInput gitops-token"}
           /\ \A j \in (i + 1)..Len(trace) : trace[j].op \in HandlerOps
           /\ Count(trace, "mkdirP") = 0
           /\ ~wcExists
           /\ wt = NoTree /\ index = NoTree /\ head = NoTree
           /\ manifest = 0

\* C14 witness: the token was supplied, the environment was not, and the run
\* has ended with the failure reported.
C14_Witness ==
    /\ pc = "done"
    /\ \E i \in 1..Len(trace) :
          trace[i].op = "getInput environment" /\ trace[i].arg = 0
    /\ failed = <<"Input required and not supplied: environment">>

\* The override document and the output document of generateValuesYaml, as
\* js-yaml parses them.
OverrideDocument == Load(args.customValues)

OutputDocument == Load(valuesYaml)

\* The override document mentions the key path p: it has p itself, or it has
\* a value that is not a mapping at a prefix of p (a value that stands for
\* everything below it).
Mentions(doc, p) ==
    \E k \in 1..Len(p) :
        /\ SubSeq(p, 1, k) \in KeyPaths(doc)
        /\ (k = Len(p) \/ Get(doc, SubSeq(p, 1, k)).t # "map")

\* C15: for every override document O that parses to a mapping, the output
\* of generateValuesYaml has O's value at every key path of O (where O has a
\* mapping the output has a mapping, and so on through its keys), and the
\* default's value, unchanged, at every default key path O does not mention.
C15_OverrideWins ==
    (gvpc = "gv_returned" /\ args.customValues # <<>>
       /\ OverrideDocument.t = "map")
    => /\ \A p \in KeyPaths(OverrideDocument) :
             IF Get(OverrideDocument, p).t = "map"
             THEN Get(OutputDocument, p).t = "map"
             ELSE Get(OutputDocument, p) = Get(OverrideDocument, p)
       /\ \A p \in KeyPaths(DefaultValues(args)) :
             ~Mentions(OverrideDocument, p)
                => Get(OutputDocument, p) = Get(DefaultValues(args), p)

\* C15 witness: the override sets the namespace and the target revision;
\* the output has both, and the default repoURL beside them.
C15_Witness ==
    /\ gvpc = "gv_returned"
    /\ Get(OverrideDocument, <<"application", "destination", "namespace">>)
          = Str("custom-ns")
    /\ Get(OutputDocument, <<"application", "destination", "namespace">>)
          = Str("custom-ns")
    /\ Get(OutputDocument, <<"application", "source", "targetRevision">>)
          = Str("feature/x")
    /\ Get(OutputDocument, <<"application", "source", "repoURL">>)
          = Str("https://github.com/org/gitops.git")

\* The key paths of the default shape that hold a scalar.
DefaultKeyPaths ==
    { <<"applicationName">>,
      <<"application", "destination", "namespace">>,
      <<"application", "source", "repoURL">>,
      <<"application", "source", "targetRevision">>,
      <<"application", "source", "path">> }

\* C16: for every override document that parses, every key path of the
\* default shape is still present in the output of generateValuesYaml.
C16_DefaultKeysKept ==
    gvpc = "gv_returned" =>
        \A p \in DefaultKeyPaths : Get(OutputDocument, p) # Absent

\* C16, amended: for every override document that parses, a key path of the
\* default shape is present in the output unless the override has a value
\* that is not a mapping (a scalar, a null, a sequence) at a proper prefix
\* of it; that value then stands in the output in the place of the default
\* mapping.  The top-level keys applicationName and application are always
\* present.
C16_DefaultKeysKeptUnlessReplaced ==
    gvpc = "gv_returned" =>
        /\ \A p \in DefaultKeyPaths :
              \/ Get(OutputDocument, p) # Absent
              \/ \E k \in 1..(Len(p) - 1) :
                    LET q == SubSeq(p, 1, k)
                    IN  /\ Get(OverrideDocument, q).t \notin {"absent", "map"}
                        /\ Get(OutputDocument, q) = Get(OverrideDocument, q)
        /\ Get(OutputDocument, <<"applicationName">>) # Absent
        /\ Get(OutputDocument, <<"application">>) # Absent

\* C16 witness: the override has a scalar for `application`; the output has
\* that scalar there, and the default applicationName.
C16_Witness ==
    /\ gvpc = "gv_returned"
    /\ Get(OverrideDocument, <<"application">>) = Str("disabled")
    /\ Get(OutputDocument, <<"application">>) = Str("disabled")
    /\ Get(OutputDocument, <<"application", "source", "path">>) = Absent
    /\ Get(OutputDocument, <<"applicationName">>)
          = Str(args.applicationName \o "-" \o args.environment)

\* C17: with an empty custom values document generateValuesYaml returns the
\* serialized default document, and parsing that text gives the default
\* tree: applicationName '<app>-<env>', namespace <app>, repoURL
\* 'https://github.com/<org>/<repo>.git', targetRevision <branch>, and the
\* source path <gitopsPath>/<app>/<env>/<applicationManifestsPath>/, all of
\* them strings, and no other key.
C17_EmptyCustomValues ==
    (gvpc = "gv_returned" /\ args.customValues = <<>>) =>
        LET before == IF args.gitopsPath.segs = <<".">> THEN "" ELSE "gitops/"
            after  == IF args.applicationManifestsPath.segs = <<".">>
                      THEN "" ELSE "k8s/"
        IN  /\ valuesYaml = Dump(DefaultValues(args))
            /\ OutputDocument = DefaultValues(args)
            /\ Get(OutputDocument, <<"applicationName">>)
                  = Str(args.applicationName \o "-" \o args.environment)
            /\ Get(OutputDocument, <<"application", "destination", "namespace">>)
                  = Str(args.applicationName)
            /\ Get(OutputDocument, <<"application", "source", "repoURL">>)
                  = Str("https://github.com/" \o args.sourceOrg \o "/"
                          \o args.sourceRepo \o ".git")
            /\ Get(OutputDocument, <<"application", "source", "targetRevision">>)
                  = Str(args.sourceBranch)
            /\ Get(OutputDocument, <<"application", "source", "path">>)
                  = Str(before \o args.applicationName \o "/" \o args.environment
                          \o "/" \o after)
            /\ KeyPaths(OutputDocument)
                  = DefaultKeyPaths
                      \cup { <<"application">>, <<"application", "destination">>,
                             <<"application", "source">> }

\* C17 witness: no custom values, a branch named like a number: the text
\* returned has the branch in quotes.
C17_Witness ==
    /\ gvpc = "gv_returned"
    /\ args.customValues = <<>>
    /\ args.sourceBranch = "2024"
    /\ \E i \in 1..Len(valuesYaml) :
          /\ valuesYaml[i].key = "targetRevision"
          /\ valuesYaml[i].tok = "2024"
          /\ valuesYaml[i].q

\* The message contains the text: it is the text with something of what
\* generateArgoCDAppManifest's errors are made of before and after it.
Contains(message, text) ==
    LET before == {"", "helm template failed with exit code ",
                   "The process 'helm' failed with exit code "}
                    \cup {"helm template failed with exit code " \o ToString(n) \o ": "
                            : n \in HelmExitCodes}
        after  == {""} \cup {": " \o s : s \in HelmStderrTexts}
    IN  \E b \in before, a \in after : message = b \o text \o a

\* C18: when the templating process exits with a non-zero status n and
\* standard-error text s, generateArgoCDAppManifest fails with a message
\* that contains both n and s, and no manifest is returned or written.
C18_RenderFailureMessage ==
    helmTemplateExitCode > 0 =>
        /\ error # ""
        /\ Contains(error, ToString(helmTemplateExitCode))
        /\ Contains(error, helmTemplateStderr)
        /\ manifest = 0
        /\ Count(trace, "writeFile_manifest") = 0
        /\ pc \in {"catch", "done"}

\* C19: whenever generateArgoCDAppManifest has created its temporary values
\* file, the file is gone once the function has returned or thrown, on the
\* success path and on every failure path (a removal that was attempted and
\* itself failed aside).
C19_TempValuesFileRemoved ==
    (Count(trace, "writeFile_values") > 0 /\ pc # "render")
       => (~customValuesFile \/ Count(trace, "unlink_values") > 0)

\* The failures commitAndPush's handler can catch.
FailureKinds == {"copy", "mkdir", "commit", "push"}

\* git.ts 258-261: what commitAndPush raises for a failure of the given kind
\* with the given reason: the one handler wraps them all alike, a plain Error
\* whose message is the prefix and the reason.
Raised(kind, reason) == "Failed to commit and push changes: " \o reason

\* C20: the error commitAndPush raises after the fifth failed push wraps the
\* last push error as a 'Failed to commit and push' failure, and differs from
\* the error raised for a copy, directory-creation or commit failure with
\* the same reason text.
C20_PushExhaustionDistinguishable ==
    (Finished /\ Count(trace, "push_fail") = 5 /\ error # "") =>
        LET reason == ExecFailed("git", 1)
        IN  /\ error = "Failed to commit and push changes: " \o reason
            /\ \A kind \in FailureKinds \ {"push"} : Raised(kind, reason) # error

\* The warning the retry loop is to emit after failed attempt k of 5, with
\* the delay in seconds that follows it.
ExpectedRetryWarning(k) ==
    "Push failed (attempt " \o ToString(k) \o "/5), retrying in "
        \o ToString(<<2, 4, 8, 16>>[k]) \o "s..."

\* C21: each failed push attempt n in 1..4 emits exactly one warning that
\* names attempt n of 5 and the upcoming delay (2, 4, 8, 16 seconds), before
\* that delay starts; the fifth failed attempt emits no retry warning.
C21_RetryWarnings ==
    /\ \A i \in Positions(trace, "push_fail") :
          LET k == trace[i].n
          IN  IF k \in 1..4
              THEN /\ Len(trace) >= i + 2
                   /\ trace[i + 1].op = "warning_retry"
                   /\ trace[i + 1].text = ExpectedRetryWarning(k)
                   /\ trace[i + 2].op = "sleep"
                   /\ trace[i + 2].arg = 1000 * <<2, 4, 8, 16>>[k]
                   /\ Cardinality({j \in Positions(trace, "warning_retry") :
                                      trace[j].n = k}) = 1
              ELSE /\ k = 5
                   /\ \A j \in Positions(trace, "warning_retry") : j < i
    /\ Count(trace, "warning_retry") <= 4
    /\ \A j \in Positions(trace, "warning_retry") :
          j > 1 /\ trace[j - 1].op = "push_fail" /\ trace[j - 1].n = trace[j].n

\* C21 witness: five pushes failed, four warnings were emitted, and the
\* invocation has ended.
C21_Witness ==
    /\ pc = "done"
    /\ Count(trace, "push_fail") = 5
    /\ Count(trace, "warning_retry") = 4
    /\ \E j \in Positions(trace, "warning_retry") :
          trace[j].text = "Push failed (attempt 4/5), retrying in 16s..."

\* External commands of an invocation, by the name of their log entry.
CommandOps ==
    {"clone", "checkout", "checkout_b", "config_name", "config_email",
     "helm_fetch", "helm_template", "status", "tree", "diff", "commit", "push"}
      \cup {AddOp("./" \o gitopsArgoAppsPrefix), AddOp("./" \o applicationName)}

\* What run and the routines it calls write themselves: log lines, notices,
\* warnings, the summary, the failure report.
EmittedOps ==
    {"info", "notice", "debug", "warning_retry", "warning_missing",
     "info_nochanges", "info_pushed", "info_success", "debug_cleanup",
     "summary", "setFailed", "setOutput"}

\* What can stand before and after a value in a failure message of run, or
\* in what git says about a URL it cannot reach.
TextBefore ==
    {"", CloneFailed(""), "https://x-access-token:",
     CloneFailed("https://x-access-token:"),
     CloneFailed("fatal: unable to access 'https://x-access-token:"),
     "Input required and not supplied: "}

TextAfter ==
    LET rest == "@github.com/" \o gitopsOrg \o "/" \o gitopsRepoName \o ".git"
    IN  {"", rest, rest \o "/': The requested URL returned error: 403"}

\* The message holds the value: it is the value with one of those texts
\* before and after it.
MessageHolds(message, value) ==
    \E b \in TextBefore, a \in TextAfter : message = b \o value \o a

\* C22: in run, the access token is registered as a secret before any
\* external command whose arguments contain it (the clone URL) is started,
\* and no log line, notice or failure message that run itself emits contains
\* the token value.
C22_TokenNeverLogged ==
    /\ \A i \in 1..Len(trace) :
          (trace[i].op \in CommandOps /\ env.token \in trace[i].holds)
             => \E j \in 1..(i - 1) :
                   trace[j].op = "setSecret" /\ trace[j].text = env.token
    /\ \A i \in 1..Len(trace) :
          trace[i].op \in EmittedOps => env.token \notin trace[i].holds
    /\ ~MessageHolds(error, env.token)
    /\ \A k \in 1..Len(failed) : ~MessageHolds(failed[k], env.token)

\* C22 witness: the clone command, whose URL holds the token, was started
\* and failed, and run has reported the failure.
C22_Witness ==
    /\ pc = "done"
    /\ Len(failed) = 1
    /\ failed[1] = CloneFailed(ExecFailed("git", 128))
    /\ \E i \in Positions(trace, "clone") :
          /\ env.token \in trace[i].holds
          /\ MessageHolds(trace[i].text, env.token)
    /\ Count(trace, "clone_ok") = 0

\* What the stages after the clone leave in the log.
LaterStageOps ==
    {"values", "render", "writeFile_values", "helm_fetch", "helm_template",
     "writeFile_manifest", "cp_pointer", "cp_entry", "readdir", "status", "tree",
     "diff", "commit", "push"}
      \cup {AddOp("./" \o gitopsArgoAppsPrefix), AddOp("./" \o applicationName)}

\* The clone command was started and did not succeed.
CloneCommandFailed ==
    Count(trace, "clone") > 0 /\ Count(trace, "clone_ok") = 0

\* C23: if the clone command fails, the clone is not attempted again, no
\* values composition, render, placement, stage, commit or push happens in
\* that invocation, and run fails with a message that wraps the clone
\* failure reason.
C23_CloneFailureFatal ==
    CloneCommandFailed =>
        /\ Count(trace, "clone") = 1
        /\ \A i \in 1..Len(trace) : trace[i].op \notin LaterStageOps
        /\ pc \in {"catch", "done"}
        /\ error = "Failed to clone GitOps repository: "
                      \o "The process 'git' failed with exit code 128"
        /\ pc = "done" => (failed = <<error>> /\ outputs = 0)

\* C23 witness: an invocation whose clone command failed has ended with the
\* failure reported and the working copy removed.
C23_Witness ==
    /\ ~wcExists
    /\ pc = "done"
    /\ CloneCommandFailed
    /\ Len(failed) = 1

\* C24: two concurrent invocations of run on the same host never use the
\* same working-copy directory: the path one invocation removes, recreates
\* and clones into is never the path another live invocation is using.
C24_ExclusiveWorkdir ==
    \A p \in Invocations, q \in Invocations :
        (p # q /\ Live(p) /\ Live(q)) => proc[p].path # proc[q].path

\* C25: commitAndPush pushes to the supplied branch name when it is
\* non-empty and to the literal ref HEAD when the supplied branch is empty;
\* every retry uses the same target.
C25_PushTarget ==
    /\ \A i \in Positions(trace, "push") :
          /\ env.branch # "" => trace[i].text = env.branch
          /\ env.branch = "" => trace[i].text = "HEAD"
    /\ \A i \in Positions(trace, "push"), j \in Positions(trace, "push") :
          trace[i].text = trace[j].text

\* C25 witness: called without a branch, commitAndPush has pushed to HEAD,
\* failed, and pushed again.
C25_Witness ==
    /\ variant = "direct"
    /\ env.branch = ""
    /\ pc = "returned"
    /\ Count(trace, "push") = 3
    /\ \A i \in Positions(trace, "push") : trace[i].text = "HEAD"

\* C26: when the gitops-branch input is not supplied, run checks out and
\* pushes to the GitOps repository's own default branch, whatever its name:
\* no branch is created, a branch checked out is the default branch, and
\* every push goes to the default branch.
C26_DefaultBranchWhenUnset ==
    (variant = "current" /\ env.branch = "") =>
        /\ Count(trace, "checkout_b") = 0
        /\ \A i \in Positions(trace, "checkout") :
              trace[i].text = env.defaultBranch
        /\ \A i \in Positions(trace, "push") :
              trace[i].text = env.defaultBranch

\* The message names the chart: it is the chart location with something of
\* what a chart failure message is made of before it, and nothing or the
\* descriptor's file name after it.
NamesChart(message, chart) ==
    LET before == {"", "we cant find helm chart in path given: ",
                   "Error: failed to fetch "}
                    \cup {HelmFailed("fetch", n, "") : n \in HelmExitCodes}
                    \cup {HelmFailed("fetch", n, "Error: failed to fetch ")
                            : n \in HelmExitCodes}
        after  == {"", "/Chart.yaml"}
    IN  \E b \in before, a \in after : message = b \o chart \o a

\* The chart check (helm fetch) has found no chart.
ChartNotFound ==
    \E i \in Positions(trace, "helm_fetch") : trace[i].arg # 0

\* C27: if the chart descriptor cannot be found at the resolved chart
\* location, generateArgoCDAppManifest fails before the templating process
\* (helm template) is ever invoked, with a message that contains the
\* resolved chart path.
C27_ChartNotFoundFailsFast ==
    ChartNotFound =>
        /\ Count(trace, "helm_template") = 0
        /\ error # ""
        /\ NamesChart(error, argoCDAppHelmChartGitURL)

\* The number of slashes in the string.
Slashes(str) == Cardinality({k \in 1..Len(str) : str[k] = "/"})

\* C28: parseRepositoryInfo returns, for an input 'owner/repo', gitopsOrg =
\* owner and gitopsRepoName = repo, and for an input without a slash,
\* gitopsOrg = the invocation context's owner and gitopsRepoName = the
\* input; for every input without a slash or with exactly one slash,
\* gitopsOrg + '/' + gitopsRepoName names the same repository as the input.
C28_ParseRepositoryInfo ==
    ppc = "returned" =>
        /\ \A k \in 1..Len(repository) :
              (repository[k] = "/" /\ Slashes(repository) = 1)
                 => /\ parsed.gitopsOrg = SubSeq(repository, 1, k - 1)
                    /\ parsed.gitopsRepoName
                          = SubSeq(repository, k + 1, Len(repository))
        /\ Slashes(repository) = 0
              => /\ parsed.gitopsOrg = contextOwner
                 /\ parsed.gitopsRepoName = repository
        /\ Slashes(repository) = 1
              => parsed.gitopsOrg \o <<"/">> \o parsed.gitopsRepoName = repository
        /\ Slashes(repository) = 0
              => parsed.gitopsOrg \o <<"/">> \o parsed.gitopsRepoName
                    = contextOwner \o <<"/">> \o repository

\* C28 witness: 'o/r' was parsed into o and r under another context owner.
C28_Witness ==
    /\ ppc = "returned"
    /\ repository = <<"o", "/", "r">>
    /\ contextOwner = <<"r", "o">>
    /\ parsed = [gitopsOrg |-> <<"o">>, gitopsRepoName |-> <<"r">>]

\* The log entries of each stage of run: 1 clone, 2 values composition,
\* 3 render, 4 placement, 5 staging, 6 change check, 7 commit, 8 push.
StageOps ==
    << {"clone", "clone_ok", "checkout", "checkout_b", "config_name", "config_email"},
       {"values"},
       {"render", "writeFile_values", "helm_fetch", "helm_template",
        "unlink_values", "writeFile_manifest", "summary"},
       {"cp_pointer", "readdir", "cp_entry", "warning_missing"},
       {AddOp("./" \o gitopsArgoAppsPrefix), AddOp("./" \o applicationName), "add_ok"},
       {"diff", "info_nochanges"},
       {"commit", "commit_ok"},
       PushOps \cup {"info_pushed"} >>

\* Every entry of a stage, and the stage each belongs to.
AllStageOps == UNION {StageOps[s] : s \in 1..8}

StageTable == [op \in AllStageOps |-> CHOOSE s \in 1..8 : op \in StageOps[s]]

\* The stage a log entry belongs to (0: none of them).
StageOf(op) == IF op \in AllStageOps THEN StageTable[op] ELSE 0

\* The entry closes its stage: it is the stage's last command or step.
ClosesStage(e) ==
    \/ e.op \in {"config_email", "values", "summary", "readdir",
                  "warning_missing", "diff", "commit_ok"}
    \/ e.op = "add_ok" /\ e.n = 2

\* From entry i on, the stages come in order, none entered before the one
\* before it was closed (last: the stage entered last; closed: it was
\* closed).
RECURSIVE StagesInOrder(_, _, _, _)
StagesInOrder(tr, i, last, closed) ==
    IF i > Len(tr) THEN TRUE
    ELSE LET s == StageOf(tr[i].op)
         IN  IF s = 0 THEN StagesInOrder(tr, i + 1, last, closed)
             ELSE IF s = last
             THEN StagesInOrder(tr, i + 1, last, closed \/ ClosesStage(tr[i]))
             ELSE /\ s = last + 1
                  /\ closed
                  /\ StagesInOrder(tr, i + 1, s, ClosesStage(tr[i]))

\* Commands whose start and whose end are separate entries of the log, and
\* the entries that end them; every other command is entered when it has
\* ended.
Started == {"clone", "commit", "push", AddOp("./" \o gitopsArgoAppsPrefix),
            AddOp("./" \o applicationName)}

Ended == {"clone_ok", "add_ok", "commit_ok", "push_ok", "push_fail"}

\* From entry i on, no command starts while another is in flight
\* (inflight: the number of commands started and not ended before i).  A
\* command that ends by raising an error leaves nothing in flight.
RECURSIVE OneAtATime(_, _, _)
OneAtATime(tr, i, inflight) ==
    IF i > Len(tr) THEN TRUE
    ELSE LET op == tr[i].op
         IN  IF op \in Started
             THEN /\ inflight = 0
                  /\ OneAtATime(tr, i + 1, 1)
             ELSE IF op \in Ended
             THEN /\ inflight = 1
                  /\ OneAtATime(tr, i + 1, 0)
             ELSE IF op \in CommandOps
             THEN /\ inflight = 0
                  /\ OneAtATime(tr, i + 1, 0)
             ELSE OneAtATime(tr, i + 1, inflight)

\* C29: within one invocation of run the stages execute strictly one after
\* another in the order clone, values composition, render, placement,
\* staging, change check, commit, push: no stage starts before the previous
\* one has completed, and no two external commands are ever in flight at the
\* same time.
C29_StagesSequential ==
    variant = "current" =>
        /\ StagesInOrder(trace, 1, 0, TRUE)
        /\ OneAtATime(trace, 1, 0)

\* C29 witness: an invocation went through all eight stages, with a push
\* that failed once, and ended.
C29_Witness ==
    /\ pc = "done"
    /\ error = ""
    /\ \A s \in 1..8 : \E i \in 1..Len(trace) : StageOf(trace[i].op) = s
    /\ Count(trace, "push_fail") = 1
    /\ Count(trace, "cp_entry") > 0

\* What can follow the commit in the log of an invocation: the push loop's
\* entries, and what run does once commitAndPush has returned or thrown.
AfterCommitOps ==
    PushOps \cup {"commit_ok", "info_pushed", "info_success", "setOutput",
                  "rmRF", "debug_cleanup", "setFailed"}

\* C30: between the commit and the final outcome of commitAndPush the only
\* version-control command ever issued is the same push repeated: no fetch,
\* pull, rebase, re-stage or second commit happens between retries, so at
\* most one commit is created per invocation however many push attempts are
\* made.
C30_OnlyPushAfterCommit ==
    /\ Count(trace, "commit") <= 1
    /\ Count(trace, "commit_ok") <= 1
    /\ \A i \in Positions(trace, "commit") :
          \A j \in (i + 1)..Len(trace) :
              /\ trace[j].op \in AfterCommitOps
              /\ trace[j].op \in CommandOps
                    => (trace[j].op = "push" /\ trace[j].text = pushBranch)

\* C30 witness: one commit, four failed pushes and a fifth that was
\* accepted.
C30_Witness ==
    /\ pc = "done"
    /\ Count(trace, "commit_ok") = 1
    /\ Count(trace, "push") = 5
    /\ Count(trace, "push_ok") = 1
    /\ remote = head

\* C31: the change check does not take a failed diff for 'changes exist':
\* when the diff step ends with an exit code other than 0 and 1, no commit is
\* attempted.
C31_FailedDiffNoCommit ==
    (gitDiffExitCode \notin {-1, 0, 1}) => Count(trace, "commit") = 0

\* Invocation q raced invocation p and p won: both cloned the branch at the
\* same commit, both committed changes, and p's push was accepted.
LostRaceTo(q, p) ==
    /\ p # q
    /\ job[p].accepted
    /\ job[q].commit # NoCommit
    /\ job[q].base = job[p].base

\* Every commit a push of which was accepted is still part of the branch.
AcceptedCommitsKept ==
    \A p \in DOMAIN job : job[p].accepted => job[p].commit \in History(origin)

\* C32 as stated: of two invocations that cloned the same commit and both
\* have changes, once one's push is accepted every push of the other is
\* rejected and the other ends in failure after 5 attempts; the branch keeps
\* the accepted commit.
C32_RaceLoserFails ==
    /\ \A p, q \in DOMAIN job :
          LostRaceTo(q, p) =>
             /\ ~job[q].accepted
             /\ job[q].pc \in {"returned", "threw"}
                   => (job[q].pc = "threw" /\ job[q].pushes = maxRetries + 1)
    /\ AcceptedCommitsKept

\* C32, amended: the same for two invocations whose commits differ; when
\* the two commits are one and the same (same tree, same message, same
\* second), the other's push finds the branch up to date and can go through.
\* In every case the branch keeps the accepted commit.
C32_RaceLoserFailsUnlessSameCommit ==
    /\ \A p, q \in DOMAIN job :
          (LostRaceTo(q, p) /\ job[q].commit # job[p].commit) =>
             /\ ~job[q].accepted
             /\ job[q].pc \in {"returned", "threw"}
                   => (job[q].pc = "threw" /\ job[q].pushes = maxRetries + 1)
    /\ \A p, q \in DOMAIN job :
          (job[p].accepted /\ job[q].accepted /\ p # q
             /\ job[p].base = job[q].base)
            => job[p].commit = job[q].commit
    /\ AcceptedCommitsKept

\* C32 witness: both invocations cloned the root commit and committed
\* different trees; one's push was accepted, the other made five attempts
\* and raised its error.
C32_Witness ==
    \E p, q \in DOMAIN job :
        /\ LostRaceTo(q, p)
        /\ job[q].commit.tree # job[p].commit.tree
        /\ origin = job[p].commit
        /\ job[q].pc = "threw"
        /\ job[q].pushes = 5

\* The branch the working copy is on after the commands of entries i..j of
\* the log, being on branch b before: the clone leaves it on the remote's
\* default branch, `git checkout <name>` moves it to a branch the remote
\* has, `git checkout -b <name>` creates the branch and moves to it.
RECURSIVE BranchAfter(_, _, _, _)
BranchAfter(tr, i, j, b) ==
    IF i > j THEN b
    ELSE LET e == tr[i]
         IN  IF e.op = "clone_ok" THEN BranchAfter(tr, i + 1, j, env.defaultBranch)
             ELSE IF e.op = "checkout" /\ e.text \in RemoteBranches
             THEN BranchAfter(tr, i + 1, j, e.text)
             ELSE IF e.op = "checkout_b" THEN BranchAfter(tr, i + 1, j, e.text)
             ELSE BranchAfter(tr, i + 1, j, b)

\* Where cloneGitOpsRepo returned (its last line, git.ts 78).
CloneReturned ==
    {i \in Positions(trace, "debug") : "Successfully cloned " \in trace[i].holds}

\* C33: when cloneGitOpsRepo returns for a non-empty branch, the working
\* copy is on the requested branch (checked out when the remote has it,
\* created when the checkout fails), user.name and user.email are configured,
\* and no commit is made before both are.
C33_CloneLeavesBranchAndIdentity ==
    /\ \A i \in CloneReturned :
          gitopsBranch # "" =>
             /\ BranchAfter(trace, 1, i, "") = gitopsBranch
             /\ \E j \in 1..i : trace[j].op = "checkout" /\ trace[j].text = gitopsBranch
             /\ (\E j \in 1..i : trace[j].op = "checkout_b")
                   <=> gitopsBranch \notin RemoteBranches
             /\ \E j, k \in 1..i :
                   /\ j < k
                   /\ trace[j].op = "config_name"
                   /\ trace[k].op = "config_email"
    /\ \A c \in Positions(trace, "commit") :
          /\ CloneReturned # {}
          /\ \A i \in CloneReturned : i < c

\* C33 witness: the requested branch is not on the remote; the clone
\* returned after creating it, and a commit was made later.
C33_Witness ==
    /\ CloneReturned # {}
    /\ gitopsBranch = "release"
    /\ gitopsBranch \notin RemoteBranches
    /\ Count(trace, "checkout_b") = 1
    /\ Count(trace, "commit_ok") = 1

\* The commands of commitAndPush that only show the state of the working
\* copy (git.ts 179-197).
DiagnosticOps == {"status", "tree"}

\* C34: a failure of `git status` or of `tree` does not fail the invocation
\* and does not prevent staging: the error run's handler receives is never
\* that of a diagnostic command, and an invocation that got as far as the
\* diagnostics and has ended has issued its first `git add`.
C34_DiagnosticFailureNonFatal ==
    /\ pc = "catch" => trace[Len(trace)].op \notin DiagnosticOps
    /\ (pc = "done" /\ Count(trace, "status") > 0)
          => Count(trace, AddOp("./" \o gitopsArgoAppsPrefix)) > 0

\* C35: every completed invocation of run ends in exactly one of two
\* outcomes: the time output is published once and nothing is reported as
\* failed, or one failure message is reported and no output is published;
\* no output is published after a failure was reported.
C35_ExactlyOneOutcome ==
    /\ pc = "done" =>
          \/ outputs = 1 /\ failed = <<>>
          \/ outputs = 0 /\ Len(failed) = 1
    /\ outputs = Count(trace, "setOutput")
    /\ outputs + Len(failed) <= 1
    /\ \A i \in Positions(trace, "setFailed") :
          \A j \in (i + 1)..Len(trace) : trace[j].op # "setOutput"

\* C35 witness: an invocation that found nothing to commit published its
\* output and reported no failure.
C35_Witness ==
    /\ pc = "done"
    /\ Count(trace, "info_nochanges") = 1
    /\ Count(trace, "setOutput") = 1
    /\ failed = <<>>

\* C36: commitAndPush always terminates: when everything it waits for comes
\* back, it returns or raises its error, and at no point has it made more
\* than 5 push attempts or started more than 4 delays.
C36_Terminates ==
    /\ [](Count(trace, "push") <= maxRetries + 1 /\ Count(trace, "sleep") <= maxRetries)
    /\ <>(pc \in {"returned", "threw"})

\* C36 witness: the call ended with its error after 5 push attempts and 4
\* delays.
C36_Witness ==
    /\ variant = "direct"
    /\ pc = "threw"
    /\ Count(trace, "push") = 5
    /\ Count(trace, "sleep") = 4

\* C37: for all values of gitopsPath, applicationName, environment and
\* applicationManifestsPath, every file that placement writes lies inside
\* one of the two staged subtrees, so everything placed is staged.
C37_PlacedIsStaged ==
    pc = "placed" =>
        /\ DOMAIN wt \subseteq DOMAIN index
        /\ \A q \in DOMAIN wt :
              \/ IsPrefix(Append(targets.gitopsBasePath.segs, gitopsArgoAppsPrefix), q)
              \/ IsPrefix(Append(targets.gitopsBasePath.segs, args.applicationName), q)

\* The number of leading segments two segment lists share.
RECURSIVE CommonLen(_, _)
CommonLen(a, b) ==
    IF a = <<>> \/ b = <<>> \/ Head(a) # Head(b) THEN 0
    ELSE 1 + CommonLen(Tail(a), Tail(b))

\* The directory `to` as a path relative to the directory `from` (both
\* absolute and normalized), written as a directory.
RelativeDir(from, to) ==
    LET k == CommonLen(from.segs, to.segs)
    IN  PathOf(FALSE,
               [i \in 1..(Len(from.segs) - k) |-> ".."]
                   \o SubSeq(to.segs, k + 1, Len(to.segs)),
               TRUE)

\* C38: for all values of gitopsPath, applicationName, environment and
\* applicationManifestsPath, the application.source.path of the default
\* values document names, relative to the root of the GitOps repository, the
\* directory into which commitAndPush copies the raw manifests.
C38_SourcePathIsPlacementDir ==
    (gvpc = "gv_defaults" /\ pc = "placed") =>
        Get(defaultValues, <<"application", "source", "path">>).v
            = PathString(RelativeDir(gitopsRepoLocalPath, targets.appManifestsTargetDir))

\* What placement may write: the pointer manifest file, and inside the
\* manifests target directory the entries named like an entry of the local
\* manifests directory.
MayBeWritten(q) ==
    \/ IsPrefix(argocdAppTargetFile, q)
    \/ \E name \in Entries(inputs.src) :
          IsPrefix(Join(appManifestsTargetDir, name), q)

\* The tree `after` holds every file of `before`, unchanged unless placement
\* may write it.
OnlyAddsOrOverwrites(before, after) ==
    \A q \in DOMAIN before :
        /\ q \in DOMAIN after
        /\ after[q] # before[q] => MayBeWritten(q)

\* C39: placement only adds or overwrites: every file of the cloned tree is
\* still in the working tree after placement, unchanged unless it is the
\* pointer manifest or lies at an entry name of the local manifests
\* directory, and the same holds of the committed tree.
C39_PlacementOnlyAdds ==
    /\ pc \in {"copy", "status", "add", "diff", "commit"}
          => OnlyAddsOrOverwrites(head, wt)
    /\ pc \in {"push", "sleeping"}
          => (OnlyAddsOrOverwrites(remote, wt) /\ OnlyAddsOrOverwrites(remote, head))

\* C39 witness: the target directory held old.yaml and d/g, the local
\* directory holds only f; the commit was made and holds all three.
C39_Witness ==
    /\ pc = "push"
    /\ Entries(inputs.src) = {"f"}
    /\ Join(appManifestsTargetDir, "old.yaml") \in DOMAIN remote
    /\ Join(appManifestsTargetDir, "old.yaml") \in DOMAIN head
    /\ appManifestsTargetDir \o <<"d", "g">> \in DOMAIN head
    /\ Join(appManifestsTargetDir, "f") \in DOMAIN head

=============================================================================
